---- MODULE Spec2Model ----
(***************************************************************************)
(* Ontology editor: the chat panel's action applier (applyActions) and the *)
(* triples view's hierarchy builder (buildHierarchy and the rendered rows). *)
(*                                                                         *)
(* A node is [id, label]; an edge is [id, source, target, label,           *)
(* datatype].  An id is a triple <<kind, t, r>>: `node-${t}` is            *)
(* <<"node", t, 0>>, `node-string-${t}` is <<"node-string", t, 0>>,         *)
(* `edge-${t}` is <<"edge", t, 0>> and `edge-${t}-${random}` is            *)
(* <<"edge", t, r>> with r >= 1.  An absent optional field (undefined) is   *)
(* NoId for an id and "" for a string: every test the code makes on such a *)
(* field is a truthiness test, which "" and undefined both fail.           *)
(***************************************************************************)
EXTENDS Integers, Sequences, FiniteSets, TLC

VARIABLES
    nodes,       \* App's node list, read through nodesRef.current
    edges,       \* App's edge list, read through edgesRef.current
    clock,       \* the last reading of Date.now()
    turns,       \* chat responses handled so far
    actions,     \* the batch handed to the last applyActions call
    readings,    \* the readings of Date.now() during that call, one per action
    prevNodes,   \* the node list the caller held before the response
    prevEdges,   \* the edge list the caller held before the response
    heldNodes,   \* what the array that was nodesRef.current holds after it
    heldEdges,   \* what the array that was edgesRef.current holds after it
    published,   \* the graphs handed to onGraphUpdate for the response, in order
    content,     \* the actions the content of the last response carries
    updatedGraph, \* the updated_graph of the last response: <<>> or <<graph>>
    hierarchy,   \* TriplesView: buildHierarchy(nodes, edges) of the last render
    rows,        \* TriplesView: the rows of the last render
    triples,     \* TriplesView.tsx, the table without subclass headers: its rows
    text,        \* extractActions: the content string, as a sequence of tokens
    scanned,     \* extractActions has returned
    extracted,   \* extractActions: the actions returned, each with its place in text
    turtle,      \* the lines generateTurtle returned, <<>> before the download
    jsonld,      \* the ontology JSON-LD document of the JSON modal
    imported,    \* the graph the import made of that document: <<>> or <<graph>>
    kg,          \* the data of the selected knowledge graph, as the backend stores it
    kgJsonld,    \* the knowledge-graph JSON-LD document of the JSON modal
    fileManager, \* FileManager: the import dialog, the file reads and the requests sent
    kgEditor,    \* TriplesView's knowledge-graph editor, its saves and the backend's record
    session      \* App and ChatPanel: the selected ontology, the requests under way

chatVars ==
    <<nodes, edges, clock, turns, actions, readings, prevNodes, prevEdges,
      heldNodes, heldEdges, published, content, updatedGraph, hierarchy, rows,
      triples>>

parserVars == <<text, scanned, extracted>>

exportVars == <<turtle, jsonld, imported, kg, kgJsonld>>

uiVars == <<fileManager, kgEditor, session>>

vars == <<chatVars, parserVars, exportVars, uiVars>>

----------------------------------------------------------------------------
(* Bounds *)

MaxClock == 3
MaxTurns == 1
MaxBatch == 2

NoId == <<"none", 0, 0>>
NoNode == [id |-> NoId, label |-> ""]

NodeLabels == {"Animal", "Dog", "Cat", "String"}
EdgeLabels == {"", "breed"}
PropertyNames == {"breed"}

----------------------------------------------------------------------------
(* Helpers over sequences *)

Range(s) == {s[i] : i \in 1..Len(s)}

MinOf(S) == CHOOSE x \in S : \A y \in S : x <= y

MaxOf(S) == CHOOSE x \in S : \A y \in S : x >= y

\* Array.prototype.find on the label: the first node carrying it, or undefined
FindByLabel(ns, l) ==
    LET I == {i \in 1..Len(ns) : ns[i].label = l}
    IN  IF I = {} THEN NoNode ELSE ns[MinOf(I)]

\* Math.random(): a value that no edge id of the list carries
Random(es) ==
    LET R == {es[i].id[3] : i \in 1..Len(es)}
    IN  IF R = {} THEN 1 ELSE MaxOf(R) + 1

Graph(ns, es) == [nodes |-> ns, edges |-> es]

----------------------------------------------------------------------------
(* applyActions: one case of the switch per operator.  g is the working    *)
(* copy (newNodes, newEdges), a the action, now the reading of Date.now(). *)

\* AddNode without the test for a node that already carries the label
AddNodeNoExistingCheck(g, a, now) ==
    IF a.label = "" THEN g
    ELSE LET newNode == [id |-> <<"node", now, 0>>, label |-> a.label]
             newNodes == Append(g.nodes, newNode)
             parentNode == FindByLabel(newNodes, a.parent)
         IN  IF a.parent # "" /\ parentNode # NoNode
             THEN Graph(newNodes,
                        Append(g.edges, [id |-> <<"edge", now, 0>>,
                                         source |-> newNode.id,
                                         target |-> parentNode.id,
                                         label |-> "subClassOf",
                                         datatype |-> ""]))
             ELSE Graph(newNodes, g.edges)

AddNode(g, a, now) ==
    IF a.label = "" THEN g
    ELSE IF FindByLabel(g.nodes, a.label) # NoNode THEN g
    ELSE LET newNode == [id |-> <<"node", now, 0>>, label |-> a.label]
             newNodes == Append(g.nodes, newNode)
             parentNode == FindByLabel(newNodes, a.parent)
         IN  IF a.parent # "" /\ parentNode # NoNode
             THEN Graph(newNodes,
                        Append(g.edges, [id |-> <<"edge", now, 0>>,
                                         source |-> newNode.id,
                                         target |-> parentNode.id,
                                         label |-> "subClassOf",
                                         datatype |-> ""]))
             ELSE Graph(newNodes, g.edges)

\* the node removed and the edges at it left in the list
RemoveNodeKeepEdges(g, a) ==
    IF a.label = "" THEN g
    ELSE LET nodeToRemove == FindByLabel(g.nodes, a.label)
             keepNode(n) == n.id # nodeToRemove.id
         IN  IF nodeToRemove = NoNode THEN g
             ELSE Graph(SelectSeq(g.nodes, keepNode), g.edges)

RemoveNode(g, a) ==
    IF a.label = "" THEN g
    ELSE LET nodeToRemove == FindByLabel(g.nodes, a.label)
             keepNode(n) == n.id # nodeToRemove.id
             keepEdge(e) == e.source # nodeToRemove.id /\ e.target # nodeToRemove.id
         IN  IF nodeToRemove = NoNode THEN g
             ELSE Graph(SelectSeq(g.nodes, keepNode), SelectSeq(g.edges, keepEdge))

AddEdge(g, a, now) ==
    IF a.source = "" \/ a.target = "" THEN g
    ELSE LET sourceNode == FindByLabel(g.nodes, a.source)
             targetNode == FindByLabel(g.nodes, a.target)
             existing == {i \in 1..Len(g.edges) :
                            /\ g.edges[i].source = sourceNode.id
                            /\ g.edges[i].target = targetNode.id}
         IN  IF sourceNode = NoNode \/ targetNode = NoNode THEN g
             ELSE IF existing # {} THEN g
             ELSE Graph(g.nodes,
                        Append(g.edges, [id |-> <<"edge", now, Random(g.edges)>>,
                                         source |-> sourceNode.id,
                                         target |-> targetNode.id,
                                         label |-> IF a.label # "" THEN a.label
                                                   ELSE "relatedTo",
                                         datatype |-> ""]))

\* RemoveEdge that takes the pair of nodes as unordered
RemoveEdgeBothDirections(g, a) ==
    IF a.source = "" \/ a.target = "" THEN g
    ELSE LET sourceNode == FindByLabel(g.nodes, a.source)
             targetNode == FindByLabel(g.nodes, a.target)
             keepEdge(e) == /\ ~(e.source = sourceNode.id /\ e.target = targetNode.id)
                            /\ ~(e.source = targetNode.id /\ e.target = sourceNode.id)
         IN  IF sourceNode = NoNode \/ targetNode = NoNode THEN g
             ELSE Graph(g.nodes, SelectSeq(g.edges, keepEdge))

RemoveEdge(g, a) ==
    IF a.source = "" \/ a.target = "" THEN g
    ELSE LET sourceNode == FindByLabel(g.nodes, a.source)
             targetNode == FindByLabel(g.nodes, a.target)
             keepEdge(e) == ~(e.source = sourceNode.id /\ e.target = targetNode.id)
         IN  IF sourceNode = NoNode \/ targetNode = NoNode THEN g
             ELSE Graph(g.nodes, SelectSeq(g.edges, keepEdge))

\* AddProperty that finds or creates the String node before it resolves the class
AddPropertyStringFirst(g, a, now) ==
    IF a.class = "" \/ a.property = "" THEN g
    ELSE LET classNode == FindByLabel(g.nodes, a.class)
             found == FindByLabel(g.nodes, "String")
             stringNode == IF found # NoNode THEN found
                           ELSE [id |-> <<"node-string", now, 0>>, label |-> "String"]
             newNodes == IF found # NoNode THEN g.nodes
                         ELSE Append(g.nodes, stringNode)
             existing == {i \in 1..Len(g.edges) :
                            /\ g.edges[i].source = classNode.id
                            /\ g.edges[i].label = a.property}
         IN  IF classNode = NoNode \/ existing # {} THEN Graph(newNodes, g.edges)
             ELSE Graph(newNodes,
                        Append(g.edges, [id |-> <<"edge", now, Random(g.edges)>>,
                                         source |-> classNode.id,
                                         target |-> stringNode.id,
                                         label |-> a.property,
                                         datatype |-> ""]))

\* AddProperty that also records the datatype on the edge it creates
AddPropertyWithDatatype(g, a, now) ==
    IF a.class = "" \/ a.property = "" THEN g
    ELSE LET classNode == FindByLabel(g.nodes, a.class)
             found == FindByLabel(g.nodes, "String")
             stringNode == IF found # NoNode THEN found
                           ELSE [id |-> <<"node-string", now, 0>>, label |-> "String"]
             newNodes == IF found # NoNode THEN g.nodes
                         ELSE Append(g.nodes, stringNode)
             existing == {i \in 1..Len(g.edges) :
                            /\ g.edges[i].source = classNode.id
                            /\ g.edges[i].label = a.property}
         IN  IF classNode = NoNode THEN g
             ELSE IF existing # {} THEN Graph(newNodes, g.edges)
             ELSE Graph(newNodes,
                        Append(g.edges, [id |-> <<"edge", now, Random(g.edges)>>,
                                         source |-> classNode.id,
                                         target |-> stringNode.id,
                                         label |-> a.property,
                                         datatype |-> "string"]))

\* AddProperty that looks for the existing edge among the edges into String only
AddPropertyKeyedOnTarget(g, a, now) ==
    IF a.class = "" \/ a.property = "" THEN g
    ELSE LET classNode == FindByLabel(g.nodes, a.class)
             found == FindByLabel(g.nodes, "String")
             stringNode == IF found # NoNode THEN found
                           ELSE [id |-> <<"node-string", now, 0>>, label |-> "String"]
             newNodes == IF found # NoNode THEN g.nodes
                         ELSE Append(g.nodes, stringNode)
             existing == {i \in 1..Len(g.edges) :
                            /\ g.edges[i].source = classNode.id
                            /\ g.edges[i].target = stringNode.id
                            /\ g.edges[i].label = a.property}
         IN  IF classNode = NoNode THEN g
             ELSE IF existing # {} THEN Graph(newNodes, g.edges)
             ELSE Graph(newNodes,
                        Append(g.edges, [id |-> <<"edge", now, Random(g.edges)>>,
                                         source |-> classNode.id,
                                         target |-> stringNode.id,
                                         label |-> a.property,
                                         datatype |-> ""]))

AddProperty(g, a, now) ==
    IF a.class = "" \/ a.property = "" THEN g
    ELSE LET classNode == FindByLabel(g.nodes, a.class)
             found == FindByLabel(g.nodes, "String")
             stringNode == IF found # NoNode THEN found
                           ELSE [id |-> <<"node-string", now, 0>>, label |-> "String"]
             newNodes == IF found # NoNode THEN g.nodes
                         ELSE Append(g.nodes, stringNode)
             existing == {i \in 1..Len(g.edges) :
                            /\ g.edges[i].source = classNode.id
                            /\ g.edges[i].label = a.property}
         IN  IF classNode = NoNode THEN g
             ELSE IF existing # {} THEN Graph(newNodes, g.edges)
             ELSE Graph(newNodes,
                        Append(g.edges, [id |-> <<"edge", now, Random(g.edges)>>,
                                         source |-> classNode.id,
                                         target |-> stringNode.id,
                                         label |-> a.property,
                                         datatype |-> ""]))

\* the switch on action.action
ApplyAction(g, a, now) ==
    CASE a.action = "add_node" -> AddNode(g, a, now)
      [] a.action = "remove_node" -> RemoveNode(g, a)
      [] a.action = "add_edge" -> AddEdge(g, a, now)
      [] a.action = "remove_edge" -> RemoveEdge(g, a)
      [] a.action = "add_property" -> AddProperty(g, a, now)
      [] OTHER -> g

\* the loop taking the batch from its last action to its first
RECURSIVE ApplyLoopReversed(_, _, _, _)
ApplyLoopReversed(g, batch, times, i) ==
    IF i > Len(batch) THEN g
    ELSE ApplyAction(ApplyLoopReversed(g, batch, times, i + 1), batch[i], times[i])

\* the for loop over the batch; times[i] is Date.now() while action i runs
RECURSIVE ApplyLoop(_, _, _, _)
ApplyLoop(g, batch, times, i) ==
    IF i > Len(batch) THEN g
    ELSE ApplyLoop(ApplyAction(g, batch[i], times[i]), batch, times, i + 1)

----------------------------------------------------------------------------
(* applyActions as a whole, and the branch of handleSend that calls it.    *)
(* Array.push changes the array it is called on, Array.filter returns a    *)
(* new one: a working list is either still the array the caller holds      *)
(* (shared) or an array of its own.                                        *)

\* newNodes = nodesRef.current: the working list is the caller's array
Alias(list) == [items |-> list, shared |-> TRUE]

\* [...nodesRef.current]: the working list is a new array with the same items
Spread(list) == [items |-> list, shared |-> FALSE]

\* the action reaches newNodes.filter / newEdges.filter
FiltersNodes(g, a) ==
    /\ a.action = "remove_node"
    /\ a.label # ""
    /\ FindByLabel(g.nodes, a.label) # NoNode

FiltersEdges(g, a) ==
    \/ FiltersNodes(g, a)
    \/ /\ a.action = "remove_edge"
       /\ a.source # "" /\ a.target # ""
       /\ FindByLabel(g.nodes, a.source) # NoNode
       /\ FindByLabel(g.nodes, a.target) # NoNode

\* one turn of the for loop on w = [g, nodesShared, edgesShared, heldNodes,
\* heldEdges]: g the working lists, held* the caller's arrays
WorkStep(w, a, now) ==
    LET g2 == ApplyAction(w.g, a, now)
        ns == w.nodesShared /\ ~FiltersNodes(w.g, a)
        es == w.edgesShared /\ ~FiltersEdges(w.g, a)
    IN  [g |-> g2, nodesShared |-> ns, edgesShared |-> es,
         heldNodes |-> IF ns THEN g2.nodes ELSE w.heldNodes,
         heldEdges |-> IF es THEN g2.edges ELSE w.heldEdges]

RECURSIVE WorkLoop(_, _, _, _)
WorkLoop(w, batch, times, i) ==
    IF i > Len(batch) THEN w
    ELSE WorkLoop(WorkStep(w, batch[i], times[i]), batch, times, i + 1)

\* applyActions(actions) on the lists ns, es of the refs: what the caller's
\* arrays hold afterwards and the onGraphUpdate calls made, in order
applyActions(ns, es, batch, times) ==
    LET g == ApplyLoop(Graph(ns, es), batch, times, 1)
        w == WorkLoop([g |-> Graph(ns, es),
                       nodesShared |-> Spread(ns).shared,
                       edgesShared |-> Spread(es).shared,
                       heldNodes |-> ns, heldEdges |-> es], batch, times, 1)
    IN  [nodes |-> g.nodes, edges |-> g.edges, actions |-> batch,
         heldNodes |-> w.heldNodes, heldEdges |-> w.heldEdges,
         published |-> <<g>>]

\* handleSend publishing the updated_graph of the response and applying the
\* actions of its content as well
HandleBoth(r, ns, es, times) ==
    IF Len(r.content) > 0
    THEN LET ug == IF r.updated_graph # <<>> THEN r.updated_graph[1] ELSE Graph(ns, es)
             out == applyActions(ug.nodes, ug.edges, r.content, times)
         IN  [out EXCEPT !.heldNodes = ns, !.heldEdges = es,
                         !.published = IF r.updated_graph # <<>>
                                       THEN <<ug>> \o out.published
                                       ELSE out.published]
    ELSE IF r.updated_graph # <<>>
    THEN [nodes |-> r.updated_graph[1].nodes, edges |-> r.updated_graph[1].edges,
          actions |-> <<>>, heldNodes |-> ns, heldEdges |-> es,
          published |-> r.updated_graph]
    ELSE [nodes |-> ns, edges |-> es, actions |-> <<>>,
          heldNodes |-> ns, heldEdges |-> es, published |-> <<>>]

\* handleSend on the response r = [content, updated_graph]: the updated_graph
\* when there is one, otherwise the actions extracted from the content
HandleResponse(r, ns, es, times) ==
    IF r.updated_graph # <<>>
    THEN [nodes |-> r.updated_graph[1].nodes, edges |-> r.updated_graph[1].edges,
          actions |-> <<>>, heldNodes |-> ns, heldEdges |-> es,
          published |-> r.updated_graph]
    ELSE IF Len(r.content) > 0
    THEN applyActions(ns, es, r.content, times)
    ELSE [nodes |-> ns, edges |-> es, actions |-> <<>>,
          heldNodes |-> ns, heldEdges |-> es, published |-> <<>>]

----------------------------------------------------------------------------
(* TriplesView: buildHierarchy.  The closure collectProperties reads and   *)
(* extends the sets visited and visitedForProps; here they are threaded    *)
(* through acc = [properties, visited, visitedForProps].                   *)

\* Array.prototype.find on the id
FindById(ns, id) ==
    LET I == {i \in 1..Len(ns) : ns[i].id = id}
    IN  IF I = {} THEN NoNode ELSE ns[MinOf(I)]

\* children.get(nodeId): the sources of the subClassOf edges into nodeId, in edge order
RECURSIVE Children(_, _, _)
Children(es, nodeId, i) ==
    IF i > Len(es) THEN <<>>
    ELSE IF es[i].label = "subClassOf" /\ es[i].target = nodeId
         THEN <<es[i].source>> \o Children(es, nodeId, i + 1)
         ELSE Children(es, nodeId, i + 1)

\* parents.has(nodeId)
HasParent(es, nodeId) ==
    \E i \in 1..Len(es) : es[i].label = "subClassOf" /\ es[i].source = nodeId

PropertyRow(predicate, object, depth, childNodeId, isDatatype, isObjectProperty) ==
    [predicate |-> predicate, object |-> object, depth |-> depth,
     childNodeId |-> childNodeId, isDatatype |-> isDatatype,
     isObjectProperty |-> isObjectProperty]

RECURSIVE CollectProperties(_, _, _, _, _, _)
RECURSIVE CollectEdges(_, _, _, _, _, _)
RECURSIVE CollectChildren(_, _, _, _, _, _, _)

\* edges.forEach of collectProperties, from edge i on
CollectEdges(ns, es, nodeId, depth, i, acc) ==
    IF i > Len(es) THEN acc
    ELSE
      LET edge == es[i]
          predicate == IF edge.label = "" THEN "relatedTo" ELSE edge.label
          targetNode == FindById(ns, edge.target)
      IN  IF edge.source # nodeId \/ predicate = "subClassOf"
          THEN CollectEdges(ns, es, nodeId, depth, i + 1, acc)
          ELSE IF edge.datatype # ""
          THEN CollectEdges(ns, es, nodeId, depth, i + 1,
                 [acc EXCEPT !.properties =
                    Append(@, PropertyRow(predicate, edge.datatype, depth, NoId,
                                          TRUE, FALSE))])
          ELSE IF edge.target # NoId /\ targetNode # NoNode
          THEN
            LET row == PropertyRow(predicate, targetNode.label, depth, edge.target,
                                   FALSE, TRUE)
            IN  IF edge.target \notin acc.visitedForProps
                THEN
                  LET sub == CollectProperties(ns, es, edge.target, depth + 1,
                               acc.visited, acc.visitedForProps \cup {edge.target})
                  IN  CollectEdges(ns, es, nodeId, depth, i + 1,
                        [properties |-> Append(acc.properties, row) \o sub.properties,
                         visited |-> sub.visited,
                         visitedForProps |-> sub.visitedForProps])
                ELSE CollectEdges(ns, es, nodeId, depth, i + 1,
                       [acc EXCEPT !.properties = Append(@, row)])
          ELSE CollectEdges(ns, es, nodeId, depth, i + 1, acc)

\* nodeChildren.forEach of collectProperties, from child j on
CollectChildren(ns, es, nodeId, depth, nodeChildren, j, acc) ==
    IF j > Len(nodeChildren) THEN acc
    ELSE
      LET childId == nodeChildren[j]
          childNode == FindById(ns, childId)
      IN  IF childId \in acc.visited
          THEN CollectChildren(ns, es, nodeId, depth, nodeChildren, j + 1, acc)
          ELSE IF childNode # NoNode
          THEN
            LET row == PropertyRow("subClassOf", childNode.label, depth, childId,
                                   FALSE, FALSE)
                sub == CollectProperties(ns, es, childId, depth + 1,
                         acc.visited \cup {childId}, acc.visitedForProps)
            IN  CollectChildren(ns, es, nodeId, depth, nodeChildren, j + 1,
                  [properties |-> Append(acc.properties, row) \o sub.properties,
                   visited |-> sub.visited,
                   visitedForProps |-> sub.visitedForProps])
          ELSE CollectChildren(ns, es, nodeId, depth, nodeChildren, j + 1,
                 [acc EXCEPT !.visited = @ \cup {childId}])

CollectProperties(ns, es, nodeId, depth, visited, visitedForProps) ==
    CollectChildren(ns, es, nodeId, depth, Children(es, nodeId, 1), 1,
      CollectEdges(ns, es, nodeId, depth, 1,
        [properties |-> <<>>, visited |-> visited,
         visitedForProps |-> visitedForProps]))

NodeGroup(node, properties) ==
    [nodeId |-> node.id, label |-> node.label, depth |-> 0, properties |-> properties]

\* roots.forEach, then nodes.forEach over the nodes not yet visited; with
\* rootsOnly the loop takes only the nodes that have no parent
RECURSIVE VisitNodes(_, _, _, _, _)
VisitNodes(ns, es, rootsOnly, i, acc) ==
    IF i > Len(ns) THEN acc
    ELSE IF (rootsOnly /\ HasParent(es, ns[i].id)) \/ ns[i].id \in acc.visited
    THEN VisitNodes(ns, es, rootsOnly, i + 1, acc)
    ELSE
      LET node == IF rootsOnly THEN FindById(ns, ns[i].id) ELSE ns[i]
          sub == CollectProperties(ns, es, ns[i].id, 0,
                   acc.visited \cup {ns[i].id}, acc.visitedForProps)
      IN  VisitNodes(ns, es, rootsOnly, i + 1,
            [result |-> Append(acc.result, NodeGroup(node, sub.properties)),
             visited |-> sub.visited,
             visitedForProps |-> sub.visitedForProps])

buildHierarchy(ns, es) ==
    LET afterRoots == VisitNodes(ns, es, TRUE, 1,
                        [result |-> <<>>, visited |-> {}, visitedForProps |-> {}])
    IN  VisitNodes(ns, es, FALSE, 1, afterRoots).result

----------------------------------------------------------------------------
(* TriplesView: the rows rendered from the hierarchy *)

Row(subject, predicate, object, depth, isFirst, nodeId, childNodeId,
    isDatatype, isObjectProperty, isSubclassHeader, isSubclass) ==
    [subject |-> subject, predicate |-> predicate, object |-> object,
     depth |-> depth, isFirst |-> isFirst, nodeId |-> nodeId,
     childNodeId |-> childNodeId, isDatatype |-> isDatatype,
     isObjectProperty |-> isObjectProperty,
     isSubclassHeader |-> isSubclassHeader, isSubclass |-> isSubclass]

\* subclasses.get(parentLabel): the map is keyed by the label of the parent
RECURSIVE Subclasses(_, _, _, _)
Subclasses(ns, es, parentLabel, i) ==
    IF i > Len(es) THEN <<>>
    ELSE
      LET parentNode == FindById(ns, es[i].target)
          childNode == FindById(ns, es[i].source)
      IN  IF /\ es[i].label = "subClassOf" /\ es[i].target # NoId
             /\ parentNode # NoNode /\ childNode # NoNode
             /\ parentNode.label = parentLabel
          THEN <<[id |-> childNode.id, label |-> childNode.label]>>
               \o Subclasses(ns, es, parentLabel, i + 1)
          ELSE Subclasses(ns, es, parentLabel, i + 1)

\* getNodeProperties(nodeId), as the rows of the class `subject` at `depth`
RECURSIVE NodePropertyRows(_, _, _, _, _, _)
NodePropertyRows(ns, es, nodeId, subject, depth, i) ==
    IF i > Len(es) THEN <<>>
    ELSE
      LET e == es[i]
          targetNode == FindById(ns, e.target)
          object == IF e.datatype # "" THEN e.datatype
                    ELSE IF e.target = NoId THEN ""
                    ELSE IF targetNode # NoNode THEN targetNode.label
                    ELSE ToString(e.target)
      IN  IF e.source = nodeId /\ e.label # "subClassOf"
          THEN <<Row(subject, IF e.label # "" THEN e.label ELSE "relatedTo", object,
                     depth, FALSE, NoId, e.target, e.datatype # "",
                     e.datatype = "" /\ e.target # NoId, FALSE, FALSE)>>
               \o NodePropertyRows(ns, es, nodeId, subject, depth, i + 1)
          ELSE NodePropertyRows(ns, es, nodeId, subject, depth, i + 1)

\* classSubclasses.forEach: the subclass row and the rows of its properties
RECURSIVE SubclassRows(_, _, _, _)
SubclassRows(ns, es, classSubclasses, j) ==
    IF j > Len(classSubclasses) THEN <<>>
    ELSE
      LET sub == classSubclasses[j]
      IN  <<Row(sub.label, "", "", 1, FALSE, sub.id, NoId, FALSE, FALSE, FALSE, TRUE)>>
          \o NodePropertyRows(ns, es, sub.id, sub.label, 1, 1)
          \o SubclassRows(ns, es, classSubclasses, j + 1)

\* the body of hierarchy.forEach for one group
GroupRows(ns, es, group) ==
    LET hasProperties ==
            \E k \in 1..Len(group.properties) :
                group.properties[k].predicate # "subClassOf"
        classSubclasses == Subclasses(ns, es, group.label, 1)
        hasSubclasses == classSubclasses # <<>>
    IN  IF ~hasProperties /\ ~hasSubclasses THEN <<>>
        ELSE <<Row(group.label, "", "", 0, TRUE, group.nodeId, NoId,
                   FALSE, FALSE, FALSE, FALSE)>>
             \o NodePropertyRows(ns, es, group.nodeId, group.label, 0, 1)
             \o (IF hasSubclasses
                 THEN <<Row(group.label, "Subclasses", "", 0, FALSE, NoId, NoId,
                            FALSE, FALSE, TRUE, FALSE)>>
                      \o SubclassRows(ns, es, classSubclasses, 1)
                 ELSE <<>>)

RECURSIVE HierarchyRows(_, _, _, _)
HierarchyRows(ns, es, groups, k) ==
    IF k > Len(groups) THEN <<>>
    ELSE GroupRows(ns, es, groups[k]) \o HierarchyRows(ns, es, groups, k + 1)

TriplesViewRows(ns, es) == HierarchyRows(ns, es, buildHierarchy(ns, es), 1)

----------------------------------------------------------------------------
(* The inputs: actions as the assistant may emit them *)

Act(kind, label, parent, source, target, class, property) ==
    [action |-> kind, label |-> label, parent |-> parent, source |-> source,
     target |-> target, class |-> class, property |-> property]

AddNodeAct(l, p) == Act("add_node", l, p, "", "", "", "")
RemoveNodeAct(l) == Act("remove_node", l, "", "", "", "", "")
AddEdgeAct(s, t, l) == Act("add_edge", l, "", s, t, "", "")
RemoveEdgeAct(s, t) == Act("remove_edge", "", "", s, t, "", "")
AddPropertyAct(c, p) == Act("add_property", "", "", "", "", c, p)

\* actions that lack a field their case requires, and one of a kind the switch
\* has no case for
Incomplete ==
    {AddNodeAct("", "Animal"), RemoveNodeAct(""), AddEdgeAct("", "Dog", "breed"),
     RemoveEdgeAct("Dog", ""), AddPropertyAct("Dog", ""),
     Act("rename_node", "Dog", "", "", "", "", "")}

Actions ==
    {AddNodeAct(l, p) : l \in NodeLabels, p \in NodeLabels \cup {""}}
    \cup {RemoveNodeAct(l) : l \in NodeLabels}
    \cup {AddEdgeAct(s, t, l) : s \in NodeLabels, t \in NodeLabels, l \in EdgeLabels}
    \cup {RemoveEdgeAct(s, t) : s \in NodeLabels, t \in NodeLabels}
    \cup {AddPropertyAct(c, p) : c \in NodeLabels, p \in PropertyNames}
    \cup Incomplete

Batches == UNION {[1..n -> Actions] : n \in 1..MaxBatch}

\* what the content of a response that carries updated_graph may hold beside it
BackendContents ==
    {<<>>, <<AddNodeAct("Cat", "Animal")>>, <<RemoveNodeAct("Dog")>>,
     <<AddPropertyAct("Dog", "breed"), AddEdgeAct("Dog", "Animal", "")>>}

\* the readings of Date.now() during one call: from the last reading on, never backwards
Readings(n) ==
    {ts \in [1..n -> clock..MaxClock] : \A i \in 1..(n - 1) : ts[i] <= ts[i + 1]}

----------------------------------------------------------------------------
(* extractActions.  The content is a sequence of tokens, each standing for *)
(* a piece of text: the fence opener ```json, the bare fence ```, a line   *)
(* break, a one-line JSON object with or without an action field, a        *)
(* brace-delimited piece with the shape of an action that is not JSON      *)
(* ({"action": "add_edge", "source": Dog}), a piece that opens a brace and *)
(* never closes it, the JSON punctuation [ ] , the literal null, and       *)
(* prose.  An extracted action is [action, at]: at is its place in text.   *)

Token(t, a) == [t |-> t, action |-> a]

FenceOpen == Token("fence-json", "")
FenceClose == Token("fence", "")
NewLine == Token("newline", "")
ObjA == Token("object", "add_node")
ObjB == Token("object", "remove_node")
ObjNoAction == Token("object", "")
Broken == Token("broken", "add_edge")
OpenBrace == Token("open-brace", "")
LBracket == Token("[", "")
RBracket == Token("]", "")
Comma == Token(",", "")
Null == Token("null", "")
Prose == Token("prose", "")

\* String.prototype.startsWith('{')
StartsWithBrace(tok) == tok.t \in {"object", "broken", "open-brace"}

\* the places lo..hi of txt that hold no white space
NonSpace(txt, lo, hi) == {i \in lo..hi : txt[i].t # "newline"}

\* the k-th smallest element of a finite set of integers
RECURSIVE Sorted(_)
Sorted(S) == IF S = {} THEN <<>> ELSE <<MinOf(S)>> \o Sorted(S \ {MinOf(S)})

\* JSON.parse on the tokens at the places ix (white space removed): the place
\* after the value that starts at ix[k], or 0 when none starts there
RECURSIVE ParseValue(_, _, _)
RECURSIVE ParseItems(_, _, _)
ParseValue(txt, ix, k) ==
    IF k > Len(ix) THEN 0
    ELSE IF txt[ix[k]].t \in {"object", "null"} THEN k + 1
    ELSE IF txt[ix[k]].t = "["
         THEN IF k + 1 <= Len(ix) /\ txt[ix[k + 1]].t = "]" THEN k + 2
              ELSE ParseItems(txt, ix, k + 1)
    ELSE 0

ParseItems(txt, ix, k) ==
    LET j == ParseValue(txt, ix, k)
    IN  IF j = 0 \/ j > Len(ix) THEN 0
        ELSE IF txt[ix[j]].t = "," THEN ParseItems(txt, ix, j + 1)
        ELSE IF txt[ix[j]].t = "]" THEN j + 1
        ELSE 0

\* JSON.parse of the tokens at lo..hi: "error" when it throws, else the kind of
\* the value
ParseKind(txt, lo, hi) ==
    LET ix == Sorted(NonSpace(txt, lo, hi))
    IN  IF ix = <<>> \/ ParseValue(txt, ix, 1) # Len(ix) + 1 THEN "error"
        ELSE IF txt[ix[1]].t = "[" THEN "array"
        ELSE txt[ix[1]].t

\* the elements of the array at lo..hi: the places of its top-level items
Elements(txt, lo, hi) ==
    LET depth(i) == Cardinality({j \in lo..(i - 1) : txt[j].t = "["})
                    - Cardinality({j \in lo..(i - 1) : txt[j].t = "]"})
    IN  Sorted({i \in lo..hi : txt[i].t \in {"object", "null"} /\ depth(i) = 1})

\* parsed.forEach(item => { if (item.action) actions.push(item) }): item.action
\* throws on null; [emitted, done], done false when it threw
RECURSIVE ForEach(_, _, _, _)
ForEach(txt, items, k, acc) ==
    IF k > Len(items) THEN [emitted |-> acc, done |-> TRUE]
    ELSE IF txt[items[k]].t = "null" THEN [emitted |-> acc, done |-> FALSE]
    ELSE ForEach(txt, items, k + 1,
                 IF txt[items[k]].action # ""
                 THEN Append(acc, [action |-> txt[items[k]].action, at |-> items[k]])
                 ELSE acc)

\* the try block on the whole fenced block at lo..hi: what it pushed, and
\* whether it reached its continue
WholeBlock(txt, lo, hi) ==
    LET kind == ParseKind(txt, lo, hi)
        first == MinOf(NonSpace(txt, lo, hi))
    IN  CASE kind = "error" -> [emitted |-> <<>>, done |-> FALSE]
          [] kind = "null" -> [emitted |-> <<>>, done |-> FALSE]
          [] kind = "object" ->
                [emitted |-> IF txt[first].action # ""
                             THEN <<[action |-> txt[first].action, at |-> first]>>
                             ELSE <<>>,
                 done |-> TRUE]
          [] kind = "array" -> ForEach(txt, Elements(txt, lo, hi), 1, <<>>)

\* jsonStr.split('\n'): the lines of lo..hi as pairs <<from, to>>
RECURSIVE SplitLines(_, _, _)
SplitLines(txt, lo, hi) ==
    LET breaks == {i \in lo..hi : txt[i].t = "newline"}
    IN  IF breaks = {} THEN << <<lo, hi>> >>
        ELSE << <<lo, MinOf(breaks) - 1>> >> \o SplitLines(txt, MinOf(breaks) + 1, hi)

\* the loop over the lines: a line that starts with { and parses to an object
\* with an action is pushed, every other line is passed over
RECURSIVE LineByLine(_, _, _)
LineByLine(txt, lines, k) ==
    IF k > Len(lines) THEN <<>>
    ELSE LET lo == lines[k][1]
             hi == lines[k][2]
         IN  (IF /\ lo <= hi
                 /\ StartsWithBrace(txt[lo])
                 /\ ParseKind(txt, lo, hi) = "object"
                 /\ txt[lo].action # ""
              THEN <<[action |-> txt[lo].action, at |-> lo]>>
              ELSE <<>>) \o LineByLine(txt, lines, k + 1)

\* the try block alone: a block whose whole parse did not reach continue
\* yields only what the try block pushed
FencedBlockNoFallback(txt, lo, hi) ==
    WholeBlock(txt, lo, hi).emitted

\* one turn of the while loop: the fenced block at lo..hi
FencedBlock(txt, lo, hi) ==
    LET whole == WholeBlock(txt, lo, hi)
    IN  IF whole.done THEN whole.emitted
        ELSE whole.emitted \o LineByLine(txt, SplitLines(txt, lo, hi), 1)

\* jsonBlockRegex.exec from place i on: the bodies <<from, to>> of the fenced
\* blocks; the lazy body ends at the first ``` after the opener, be it a bare
\* fence or the head of another opener
RECURSIVE Blocks(_, _)
Blocks(txt, i) ==
    LET opens == {k \in i..Len(txt) : txt[k].t = "fence-json"}
    IN  IF opens = {} THEN <<>>
        ELSE LET o == MinOf(opens)
                 closes == {k \in (o + 1)..Len(txt) : txt[k].t \in {"fence-json", "fence"}}
             IN  IF closes = {} THEN <<>>
                 ELSE << <<o + 1, MinOf(closes) - 1>> >> \o Blocks(txt, MinOf(closes) + 1)

\* the while loop over the fenced blocks
RECURSIVE FencedActions(_, _, _)
FencedActions(txt, blocks, k) ==
    IF k > Len(blocks) THEN <<>>
    ELSE FencedBlock(txt, blocks[k][1], blocks[k][2])
         \o FencedActions(txt, blocks, k + 1)

\* inlineRegex.exec over the whole content: every brace-delimited piece with
\* the shape of an action; the pieces that do not parse are passed over
InlineActions(txt) ==
    LET hits == Sorted({i \in 1..Len(txt) :
                          /\ txt[i].t \in {"object", "broken"}
                          /\ txt[i].action # ""})
        parsed == SelectSeq(hits, LAMBDA i : txt[i].t = "object")
    IN  [k \in 1..Len(parsed) |-> [action |-> txt[parsed[k]].action, at |-> parsed[k]]]

extractActions(txt) ==
    LET fenced == FencedActions(txt, Blocks(txt, 1), 1)
    IN  IF Len(fenced) = 0 THEN InlineActions(txt) ELSE fenced

----------------------------------------------------------------------------
(* The contents extractActions is run on: one or two segments, a segment   *)
(* being a fenced block, an opener that is never closed, or text outside a *)
(* fence; a body is one or two lines, or an array laid out on lines.       *)

MaxSegments == 2
MaxLines == 2
MaxExportEdges == 2
MaxInstances == 2
MaxRelationships == 1
MaxFiles == 2
MaxRequests == 2
MaxSaves == 2
MaxPanels == 2
MaxChatTurns == 2
MaxSelections == 2
MaxCreations == 1

ContentLines ==
    {<<>>, <<ObjA>>, <<ObjB>>, <<ObjNoAction>>, <<Broken>>, <<OpenBrace>>,
     <<Prose>>, <<Null>>, <<ObjA, Comma>>, <<Prose, ObjB>>,
     <<LBracket, ObjA, Comma, ObjB, RBracket>>,
     <<LBracket, ObjA, Comma, Null, Comma, ObjB, RBracket>>}

RECURSIVE JoinLines(_)
JoinLines(ls) ==
    IF Len(ls) = 0 THEN <<>>
    ELSE IF Len(ls) = 1 THEN ls[1]
    ELSE ls[1] \o <<NewLine>> \o JoinLines(Tail(ls))

\* an array with every bracket, comma and item on a line of its own
RECURSIVE ItemLines(_)
ItemLines(items) ==
    IF Len(items) = 0 THEN <<>>
    ELSE IF Len(items) = 1 THEN <<NewLine, items[1], NewLine>>
    ELSE <<NewLine, items[1], NewLine, Comma>> \o ItemLines(Tail(items))

ArrayOnLines(items) == <<LBracket>> \o ItemLines(items) \o <<RBracket>>

Bodies ==
    {JoinLines(ls) : ls \in UNION {[1..n -> ContentLines] : n \in 1..MaxLines}}
    \cup {ArrayOnLines(<<ObjA, ObjB>>), ArrayOnLines(<<ObjA, ObjB, Null>>),
          ArrayOnLines(<<ObjB, ObjNoAction, ObjA>>)}

Segments ==
    {<<FenceOpen, NewLine>> \o b \o <<NewLine, FenceClose>> : b \in Bodies}
    \cup {<<FenceOpen>> \o b : b \in {<<ObjA>>, <<Prose>>}}
    \cup {l \o <<NewLine>> : l \in ContentLines}

RECURSIVE JoinSegments(_)
JoinSegments(ss) ==
    IF Len(ss) = 0 THEN <<>> ELSE ss[1] \o JoinSegments(Tail(ss))

Contents ==
    {JoinSegments(ss) : ss \in UNION {[1..n -> Segments] : n \in 1..MaxSegments}}

----------------------------------------------------------------------------
(* The exports.  A URI is [prefix, local, ofId]: `:${x}` is prefix ":",    *)
(* toUri(x) is prefix "", `xsd:${x}` is prefix "xsd"; local is the text    *)
(* after the prefix, and ofId is the node id the text was taken from when  *)
(* the code fell back on the id for want of a label.  An edge label ""     *)
(* stands for an edge without label (typeof edge.label is not 'string').   *)

Uri(prefix, local, ofId) == [prefix |-> prefix, local |-> local, ofId |-> ofId]

NoUri == Uri("none", "", NoId)

\* label.replace(/\s+/g, '_') on the texts of the model; those that hold
\* white space are "Guide Dog" and "Big Ben"
toUri(label) ==
    CASE label = "Guide Dog" -> "Guide_Dog"
      [] label = "Big Ben" -> "Big_Ben"
      [] OTHER -> label

\* node.data.label || node.id, as the URI with the given prefix
UriOfNode(prefix, node) ==
    IF node.label # "" THEN Uri(prefix, toUri(node.label), NoId)
    ELSE Uri(prefix, "", node.id)

\* typeof edge.label === 'string' ? edge.label : 'relatedTo'
Predicate(edge) == IF edge.label # "" THEN edge.label ELSE "relatedTo"

(* generateTurtle: a line is [kind, s, o, text] *)

TurtleLine(kind, subject, object, txt) ==
    [kind |-> kind, s |-> subject, o |-> object, text |-> txt]

Prefixes ==
    <<TurtleLine("prefix", NoUri, NoUri, "rdf"), TurtleLine("prefix", NoUri, NoUri, "rdfs"),
      TurtleLine("prefix", NoUri, NoUri, "owl"), TurtleLine("prefix", NoUri, NoUri, ""),
      TurtleLine("blank", NoUri, NoUri, "")>>

\* nodes.forEach: the class declaration of each node
RECURSIVE ClassLines(_, _)
ClassLines(ns, i) ==
    IF i > Len(ns) THEN <<>>
    ELSE <<TurtleLine("a owl:Class", UriOfNode(":", ns[i]), NoUri, ""),
           TurtleLine("rdfs:label", NoUri, NoUri, ns[i].label),
           TurtleLine("blank", NoUri, NoUri, "")>> \o ClassLines(ns, i + 1)

\* the body of edges.forEach: the lines of the edge es[i]
EdgeLines(ns, es, i) ==
    LET edge == es[i]
        sourceNode == FindById(ns, edge.source)
        targetNode == FindById(ns, edge.target)
        predicateUri == Uri(":", toUri(Predicate(edge)), NoId)
    IN  IF sourceNode = NoNode \/ targetNode = NoNode THEN <<>>
        ELSE IF Predicate(edge) = "subClassOf"
        THEN <<TurtleLine("rdfs:subClassOf", UriOfNode(":", sourceNode),
                          UriOfNode(":", targetNode), ""),
               TurtleLine("blank", NoUri, NoUri, "")>>
        ELSE <<TurtleLine("a owl:ObjectProperty", predicateUri, NoUri, ""),
               TurtleLine("rdfs:domain", NoUri, UriOfNode(":", sourceNode), ""),
               TurtleLine("rdfs:range", NoUri, UriOfNode(":", targetNode), ""),
               TurtleLine("blank", NoUri, NoUri, "")>>

RECURSIVE RelationLines(_, _, _)
RelationLines(ns, es, i) ==
    IF i > Len(es) THEN <<>>
    ELSE EdgeLines(ns, es, i) \o RelationLines(ns, es, i + 1)

generateTurtle(ns, es) == Prefixes \o ClassLines(ns, 1) \o RelationLines(ns, es, 1)

(* handleShowJson, the ontology branch: an entry of @graph is             *)
(* [id, type, label, domain, range, subClassOf]                            *)

Entry(id, type, label, domain, range) ==
    [id |-> id, type |-> type, label |-> label, domain |-> domain,
     range |-> range, subClassOf |-> NoUri]

\* idToLabel.get(id) || id, through toUri: the last node with the id gives the label
LabelUri(ns, id) ==
    LET I == {i \in 1..Len(ns) : ns[i].id = id}
    IN  IF I # {} /\ ns[MaxOf(I)].label # "" THEN Uri("", toUri(ns[MaxOf(I)].label), NoId)
        ELSE Uri("", "", id)

\* for (const node of nodes): one class entry per node
ClassEntries(ns) ==
    [i \in 1..Len(ns) |-> Entry(UriOfNode("", ns[i]), "owl:Class", ns[i].label, NoUri, NoUri)]

\* edge.datatype.toLowerCase()
LowerCase(d) ==
    CASE d = "Integer" -> "integer"
      [] OTHER -> d

\* datatypeMap[edge.datatype.toLowerCase()] || `xsd:${edge.datatype}`
XsdType(d) ==
    CASE LowerCase(d) \in {"string", "integer", "float", "double", "boolean", "date"} ->
            Uri("xsd", LowerCase(d), NoId)
      [] LowerCase(d) = "datetime" -> Uri("xsd", "dateTime", NoId)
      [] OTHER -> Uri("xsd", d, NoId)

\* graph.find(e => e["@id"] === id && e["@type"] === type): the index, or 0
FindEntry(graph, id, type) ==
    LET I == {k \in 1..Len(graph) : graph[k].id = id /\ graph[k].type = type}
    IN  IF I = {} THEN 0 ELSE MinOf(I)

\* graph.find(e => e["@id"] === id): the index, or 0
FindEntryById(graph, id) ==
    LET I == {k \in 1..Len(graph) : graph[k].id = id}
    IN  IF I = {} THEN 0 ELSE MinOf(I)

\* the edge declared whether or not its predicate has a declaration of the kind
AddRelationshipAlways(ns, graph, edge) ==
    LET sourceUri == LabelUri(ns, edge.source)
        predicateUri == Uri("", toUri(Predicate(edge)), NoId)
    IN  IF edge.datatype # ""
        THEN Append(graph, Entry(predicateUri, "owl:DatatypeProperty", "",
                                 sourceUri, XsdType(edge.datatype)))
        ELSE IF Predicate(edge) = "subClassOf" /\ edge.target # NoId
        THEN LET k == FindEntryById(graph, sourceUri)
             IN  IF k = 0 THEN graph
                 ELSE [graph EXCEPT ![k].subClassOf = LabelUri(ns, edge.target)]
        ELSE IF edge.target # NoId
        THEN Append(graph, Entry(predicateUri, "owl:ObjectProperty", "",
                                 sourceUri, LabelUri(ns, edge.target)))
        ELSE graph

\* the body of for (const edge of edges)
AddRelationship(ns, graph, edge) ==
    LET sourceUri == LabelUri(ns, edge.source)
        predicateUri == Uri("", toUri(Predicate(edge)), NoId)
    IN  IF edge.datatype # ""
        THEN IF FindEntry(graph, predicateUri, "owl:DatatypeProperty") # 0 THEN graph
             ELSE Append(graph, Entry(predicateUri, "owl:DatatypeProperty", "",
                                      sourceUri, XsdType(edge.datatype)))
        ELSE IF Predicate(edge) = "subClassOf" /\ edge.target # NoId
        THEN LET k == FindEntryById(graph, sourceUri)
             IN  IF k = 0 THEN graph
                 ELSE [graph EXCEPT ![k].subClassOf = LabelUri(ns, edge.target)]
        ELSE IF edge.target # NoId
        THEN IF FindEntry(graph, predicateUri, "owl:ObjectProperty") # 0 THEN graph
             ELSE Append(graph, Entry(predicateUri, "owl:ObjectProperty", "",
                                      sourceUri, LabelUri(ns, edge.target)))
        ELSE graph

RECURSIVE AddRelationships(_, _, _, _)
AddRelationships(ns, es, graph, i) ==
    IF i > Len(es) THEN graph
    ELSE AddRelationships(ns, es, AddRelationship(ns, graph, es[i]), i + 1)

\* the document: @context is always written
OntologyJsonLd(ns, es) ==
    [context |-> TRUE, graph |-> AddRelationships(ns, es, ClassEntries(ns), 1)]

NoDocument == [context |-> FALSE, graph |-> <<>>]

(* The import of a JSON-LD document: the backend's part of               *)
(* POST /ontologies/{username}/import.  A class entry becomes a node, a    *)
(* property declaration an edge from its domain to its range, the          *)
(* rdfs:subClassOf of a class entry a subClassOf edge.                     *)

ImportedNode(k, label) == [id |-> <<"import", k, 0>>, label |-> label]

\* the node made of the first class entry with the @id, or NoNode
NodeOfUri(graph, uri) ==
    LET k == FindEntry(graph, uri, "owl:Class")
    IN  IF k = 0 THEN NoNode ELSE ImportedNode(k, graph[k].label)

ImportedNodes(graph) ==
    SelectSeq([k \in 1..Len(graph) |->
                  IF graph[k].type = "owl:Class" THEN ImportedNode(k, graph[k].label)
                  ELSE NoNode],
              LAMBDA n : n # NoNode)

NoEdge == [id |-> NoId, source |-> NoId, target |-> NoId, label |-> "", datatype |-> ""]

\* the edge of a property declaration, the edge of a class entry's rdfs:subClassOf
ImportedEdge(graph, k) ==
    LET e == graph[k]
        id == <<"import-edge", k, 0>>
    IN  CASE e.type = "owl:ObjectProperty" ->
               [id |-> id, source |-> NodeOfUri(graph, e.domain).id,
                target |-> NodeOfUri(graph, e.range).id, label |-> e.id.local,
                datatype |-> ""]
          [] e.type = "owl:DatatypeProperty" ->
               [id |-> id, source |-> NodeOfUri(graph, e.domain).id,
                target |-> NoId, label |-> e.id.local, datatype |-> e.range.local]
          [] e.type = "owl:Class" /\ e.subClassOf # NoUri ->
               [id |-> id, source |-> ImportedNode(k, e.label).id,
                target |-> NodeOfUri(graph, e.subClassOf).id, label |-> "subClassOf",
                datatype |-> ""]
          [] OTHER -> NoEdge

ImportedEdges(graph) ==
    SelectSeq([k \in 1..Len(graph) |-> ImportedEdge(graph, k)], LAMBDA e : e # NoEdge)

\* <<graph>>, or <<>> when the document has no @context and the import fails
ImportJsonLd(doc) ==
    IF ~doc.context THEN <<>>
    ELSE <<Graph(ImportedNodes(doc.graph), ImportedEdges(doc.graph))>>

(* handleShowJson, the knowledge-graph branch.  instances is the list of   *)
(* the object's entries [class, names] in key order, relationships the     *)
(* list of entries [parts, values] with parts = relKey.split(':').  An     *)
(* entry of @graph is [id, type, label, props], props being the            *)
(* properties set on it after creation, [key, one, targets] each.          *)

\* instances[className] || []
InstancesOf(instances, className) ==
    LET I == {i \in 1..Len(instances) : instances[i].class = className}
    IN  IF I = {} THEN <<>> ELSE instances[MinOf(I)].names

\* Array.prototype.includes
Includes(list, x) == \E i \in 1..Len(list) : list[i] = x

InstanceUri(name) == Uri("instance", toUri(name), NoId)

InstanceEntry(className, instanceName) ==
    [id |-> InstanceUri(instanceName), type |-> Uri("", toUri(className), NoId),
     label |-> instanceName, props |-> <<>>]

\* the entries of one class, the entries of all classes
RECURSIVE InstanceEntries(_, _)
InstanceEntries(instances, i) ==
    IF i > Len(instances) THEN <<>>
    ELSE [j \in 1..Len(instances[i].names) |->
             InstanceEntry(instances[i].class, instances[i].names[j])]
         \o InstanceEntries(instances, i + 1)

\* entry[key] = value: the property is replaced where it stands, or added
SetProperty(props, key, targets) ==
    LET value == [key |-> key, one |-> Len(targets) = 1, targets |-> targets]
        I == {i \in 1..Len(props) : props[i].key = key}
    IN  IF I = {} THEN Append(props, value)
        ELSE [props EXCEPT ![MinOf(I)] = value]

\* relValues.filter(t => (instances[targetClass] || []).includes(t)).map(...)
TargetsOf(instances, targetClass, relValues) ==
    LET present == SelectSeq(relValues,
                             LAMBDA t : Includes(InstancesOf(instances, targetClass), t))
    IN  [i \in 1..Len(present) |-> InstanceUri(present[i])]

\* for (const sourceInstance of sourceInstances), from index j on
RECURSIVE RelateSources(_, _, _, _, _)
RelateSources(instances, graph, parts, relValues, j) ==
    LET sourceInstances == InstancesOf(instances, parts[1])
    IN  IF j > Len(sourceInstances) THEN graph
        ELSE LET k == FindEntryById(graph, InstanceUri(sourceInstances[j]))
                 targets == TargetsOf(instances, parts[3], relValues)
                 next == IF k # 0 /\ Len(targets) > 0
                         THEN [graph EXCEPT ![k].props =
                                  SetProperty(@, toUri(parts[2]), targets)]
                         ELSE graph
             IN  RelateSources(instances, next, parts, relValues, j + 1)

\* for (const [relKey, relValues] of Object.entries(relationships)), from index i on
RECURSIVE Relate(_, _, _, _)
Relate(instances, relationships, graph, i) ==
    IF i > Len(relationships) THEN graph
    ELSE IF Len(relationships[i].parts) # 3
    THEN Relate(instances, relationships, graph, i + 1)
    ELSE Relate(instances, relationships,
                RelateSources(instances, graph, relationships[i].parts,
                              relationships[i].values, 1),
                i + 1)

KnowledgeGraphJsonLd(kgData) ==
    [context |-> TRUE,
     graph |-> Relate(kgData.instances, kgData.relationships,
                      InstanceEntries(kgData.instances, 1), 1)]

EmptyKg == [instances |-> <<>>, relationships |-> <<>>]

----------------------------------------------------------------------------
(* TriplesView.tsx: the component whose table lists a subclass as a        *)
(* subClassOf row of its parent.  Its buildHierarchy is the one above      *)
(* without datatype rows, without the descent into the target of an edge   *)
(* and without visitedForProps; a property is [predicate, object, depth,   *)
(* childNodeId], and visited is threaded through [properties, visited].    *)

RECURSIVE collectProperties(_, _, _, _, _)
RECURSIVE collectChildren(_, _, _, _, _, _)

\* nodeChildren.forEach of collectProperties, from child j on
collectChildren(ns, es, nodeId, depth, j, visited) ==
    LET nodeChildren == Children(es, nodeId, 1)
    IN  IF j > Len(nodeChildren) THEN [properties |-> <<>>, visited |-> visited]
        ELSE
          LET childId == nodeChildren[j]
              childNode == FindById(ns, childId)
          IN  IF childId \in visited
              THEN collectChildren(ns, es, nodeId, depth, j + 1, visited)
              ELSE IF childNode = NoNode
              THEN collectChildren(ns, es, nodeId, depth, j + 1, visited \cup {childId})
              ELSE
                LET sub == collectProperties(ns, es, childId, depth + 1,
                                             visited \cup {childId})
                    rest == collectChildren(ns, es, nodeId, depth, j + 1, sub.visited)
                IN  [properties |->
                        <<[predicate |-> "subClassOf", object |-> childNode.label,
                           depth |-> depth, childNodeId |-> childId]>>
                        \o sub.properties \o rest.properties,
                     visited |-> rest.visited]

\* collectProperties(nodeId, depth): the edges out of the node, then its children
collectProperties(ns, es, nodeId, depth, visited) ==
    LET out == SelectSeq(es, LAMBDA edge :
                   /\ edge.source = nodeId
                   /\ Predicate(edge) # "subClassOf"
                   /\ FindById(ns, edge.target) # NoNode)
        below == collectChildren(ns, es, nodeId, depth, 1, visited)
    IN  [properties |->
            [k \in 1..Len(out) |->
                [predicate |-> Predicate(out[k]),
                 object |-> FindById(ns, out[k].target).label,
                 depth |-> depth, childNodeId |-> NoId]]
            \o below.properties,
         visited |-> below.visited]

\* roots.forEach, then nodes.forEach over the nodes not yet visited, each group
\* pushed as its rows by hierarchy.forEach: the subject row and the property rows
RECURSIVE VisitGroups(_, _, _, _, _)
VisitGroups(ns, es, rootsOnly, i, acc) ==
    IF i > Len(ns) THEN acc
    ELSE IF (rootsOnly /\ HasParent(es, ns[i].id)) \/ ns[i].id \in acc.visited
    THEN VisitGroups(ns, es, rootsOnly, i + 1, acc)
    ELSE
      LET node == IF rootsOnly THEN FindById(ns, ns[i].id) ELSE ns[i]
          group == collectProperties(ns, es, ns[i].id, 0, acc.visited \cup {ns[i].id})
      IN  VisitGroups(ns, es, rootsOnly, i + 1,
            [rows |-> acc.rows
                \o <<[subject |-> node.label, predicate |-> "", object |-> "",
                      depth |-> 0, isFirst |-> TRUE, nodeId |-> ns[i].id,
                      childNodeId |-> NoId]>>
                \o [k \in 1..Len(group.properties) |->
                       [subject |-> node.label,
                        predicate |-> group.properties[k].predicate,
                        object |-> group.properties[k].object,
                        depth |-> group.properties[k].depth, isFirst |-> FALSE,
                        nodeId |-> NoId,
                        childNodeId |-> group.properties[k].childNodeId]],
             visited |-> group.visited])

\* the rows of the table
TriplesRows(ns, es) ==
    VisitGroups(ns, es, FALSE, 1,
                VisitGroups(ns, es, TRUE, 1, [rows |-> <<>>, visited |-> {}])).rows

\* `${row.subject}:${row.predicate}:${targetClass}`, as its three parts
relationshipKey(row) == <<row.subject, row.predicate, row.object>>

----------------------------------------------------------------------------
(* The graphs an ontology is loaded with when it is selected: the graphs   *)
(* earlier chat turns saved (each built here by the calls that saved it,   *)
(* at the clock readings 0 and 1), and graphs drawn on the canvas, whose   *)
(* ids are <<"canvas", k, 0>>.                                             *)

Empty == Graph(<<>>, <<>>)

CanvasNode(k, l) == [id |-> <<"canvas", k, 0>>, label |-> l]
CanvasEdge(k, s, t, l) ==
    [id |-> <<"canvas-edge", k, 0>>, source |-> <<"canvas", s, 0>>,
     target |-> <<"canvas", t, 0>>, label |-> l, datatype |-> ""]
CanvasDatatypeEdge(k, s, l, d) ==
    [id |-> <<"canvas-edge", k, 0>>, source |-> <<"canvas", s, 0>>,
     target |-> NoId, label |-> l, datatype |-> d]

\* Animal, Dog, Dog subClassOf Animal
Scenario ==
    ApplyLoop(Empty, <<AddNodeAct("Animal", ""), AddNodeAct("Dog", "Animal")>>,
              <<0, 1>>, 1)

\* the scenario with the property Dog.breed
ScenarioWithProperty ==
    ApplyLoop(Scenario, <<AddPropertyAct("Dog", "breed")>>, <<1>>, 1)

\* Animal and Dog added by one batch within one millisecond, and a relation
SameMillisecond ==
    ApplyLoop(Empty, <<AddNodeAct("Animal", ""), AddNodeAct("Dog", ""),
                       AddNodeAct("Cat", "Animal")>>, <<0, 0, 1>>, 1)

\* two parallel edges Dog -> String, one edge back, one subClassOf edge
Parallel ==
    ApplyLoop(Empty, <<AddNodeAct("String", ""), AddNodeAct("Dog", "String"),
                       AddPropertyAct("Dog", "breed"),
                       AddEdgeAct("String", "Dog", "")>>, <<0, 1, 1, 1>>, 1)

\* drawn on the canvas: a datatype property, an object property of the same
\* name on another class, two parallel object properties
Canvas ==
    Graph(<<CanvasNode(1, "Animal"), CanvasNode(2, "Dog")>>,
          <<CanvasDatatypeEdge(1, 2, "breed", "string"),
            CanvasEdge(2, 1, 2, "breed"),
            CanvasEdge(3, 1, 2, "eats"),
            CanvasEdge(4, 2, 1, "subClassOf")>>)

\* drawn on the canvas: two classes with the same label
DuplicateLabels ==
    Graph(<<CanvasNode(1, "Dog"), CanvasNode(2, "Animal"), CanvasNode(3, "Dog")>>,
          <<CanvasEdge(1, 1, 2, "subClassOf"), CanvasEdge(2, 3, 2, "eats")>>)

\* drawn on the canvas: a subClassOf cycle, and a class outside it
Cycle ==
    Graph(<<CanvasNode(1, "Animal"), CanvasNode(2, "Dog"), CanvasNode(3, "Cat")>>,
          <<CanvasEdge(1, 1, 2, "subClassOf"), CanvasEdge(2, 2, 1, "subClassOf"),
            CanvasEdge(3, 3, 1, "eats")>>)

\* drawn on the canvas: a class with two parents
TwoParents ==
    Graph(<<CanvasNode(1, "Animal"), CanvasNode(2, "Dog"), CanvasNode(3, "Cat")>>,
          <<CanvasEdge(1, 3, 1, "subClassOf"), CanvasEdge(2, 3, 2, "subClassOf")>>)

\* drawn on the canvas: a chain Cat subClassOf Dog subClassOf Animal
Chain ==
    Graph(<<CanvasNode(1, "Animal"), CanvasNode(2, "Dog"), CanvasNode(3, "Cat")>>,
          <<CanvasEdge(1, 2, 1, "subClassOf"), CanvasEdge(2, 3, 2, "subClassOf")>>)

LoadedGraphs ==
    {Empty, Scenario, ScenarioWithProperty, SameMillisecond, Parallel, Canvas,
     DuplicateLabels, Cycle, TwoParents, Chain}

----------------------------------------------------------------------------
(* The state machine *)

\* no dialog is open, no knowledge graph is edited, nobody is logged in
UiIdle ==
    /\ fileManager = <<>>
    /\ kgEditor = <<>>
    /\ session = <<>>

\* no content is being scanned
ParserIdle ==
    /\ text = <<>>
    /\ scanned = FALSE
    /\ extracted = <<>>

\* nothing is exported and no knowledge graph is selected
ExportIdle ==
    /\ turtle = <<>>
    /\ jsonld = NoDocument
    /\ imported = <<>>
    /\ kg = EmptyKg
    /\ kgJsonld = NoDocument

\* handleSelectOntology: the graph of the selected ontology replaces the lists
Init ==
    /\ \E g \in LoadedGraphs : nodes = g.nodes /\ edges = g.edges
    /\ clock = 2
    /\ turns = 0
    /\ actions = <<>>
    /\ readings = <<>>
    /\ prevNodes = <<>>
    /\ prevEdges = <<>>
    /\ heldNodes = <<>>
    /\ heldEdges = <<>>
    /\ published = <<>>
    /\ content = <<>>
    /\ updatedGraph = <<>>
    /\ hierarchy = buildHierarchy(nodes, edges)
    /\ rows = TriplesViewRows(nodes, edges)
    /\ triples = TriplesRows(nodes, edges)
    /\ ParserIdle
    /\ ExportIdle
    /\ UiIdle

\* handleSend on the response r, with the readings times of Date.now(); App
\* takes the published lists and TriplesView renders them
Respond(r, times) ==
    LET out == HandleResponse(r, nodes, edges, times)
    IN  /\ nodes' = out.nodes
        /\ edges' = out.edges
        /\ actions' = out.actions
        /\ heldNodes' = out.heldNodes
        /\ heldEdges' = out.heldEdges
        /\ published' = out.published
        /\ content' = r.content
        /\ updatedGraph' = r.updated_graph
        /\ readings' = times
        /\ clock' = IF times = <<>> THEN clock ELSE times[Len(times)]
        /\ prevNodes' = nodes
        /\ prevEdges' = edges
        /\ turns' = turns + 1
        /\ hierarchy' = buildHierarchy(nodes', edges')
        /\ rows' = TriplesViewRows(nodes', edges')
        /\ triples' = TriplesRows(nodes', edges')
        /\ UNCHANGED <<parserVars, exportVars, uiVars>>

\* a response without updated_graph whose content carries actions:
\* applyActions(actions) works on copies of the lists and publishes the result
\* with one onGraphUpdate call after the loop
ApplyActions ==
    /\ turns < MaxTurns
    /\ \E batch \in Batches : \E times \in Readings(Len(batch)) :
         Respond([content |-> batch, updated_graph |-> <<>>], times)

\* a response with updated_graph: the backend's graph is published as it is
UseUpdatedGraph ==
    /\ turns < MaxTurns
    /\ \E ug \in LoadedGraphs : \E c \in BackendContents :
         Respond([content |-> c, updated_graph |-> <<ug>>], <<>>)

\* a response without updated_graph and without actions: nothing is published
NoActions ==
    /\ turns < MaxTurns
    /\ Respond([content |-> <<>>, updated_graph |-> <<>>], <<>>)

Next == ApplyActions \/ UseUpdatedGraph \/ NoActions

Spec == Init /\ [][Next]_vars

----------------------------------------------------------------------------
(* extractActions on its own: a content arrives and is scanned *)

\* the panel with no ontology loaded and no response handled
ChatIdle ==
    /\ nodes = <<>> /\ edges = <<>>
    /\ clock = 0 /\ turns = 0
    /\ actions = <<>> /\ readings = <<>>
    /\ prevNodes = <<>> /\ prevEdges = <<>>
    /\ heldNodes = <<>> /\ heldEdges = <<>>
    /\ published = <<>> /\ content = <<>> /\ updatedGraph = <<>>
    /\ hierarchy = <<>> /\ rows = <<>> /\ triples = <<>>

ParserInit ==
    /\ ChatIdle
    /\ ExportIdle
    /\ UiIdle
    /\ text \in Contents
    /\ scanned = FALSE
    /\ extracted = <<>>

ExtractActions ==
    /\ ~scanned
    /\ extracted' = extractActions(text)
    /\ scanned' = TRUE
    /\ UNCHANGED <<text, chatVars, exportVars, uiVars>>

ParserNext == ExtractActions

ParserSpec == ParserInit /\ [][ParserNext]_vars

----------------------------------------------------------------------------
(* The exports of an ontology drawn on the canvas: three classes, and up   *)
(* to MaxExportEdges edges among them.                                     *)

ExportNodeLists ==
    {<<CanvasNode(1, "Animal"), CanvasNode(2, "Dog"), CanvasNode(3, "Guide Dog")>>,
     <<CanvasNode(1, "Animal"), CanvasNode(2, "Guide_Dog"), CanvasNode(3, "Guide Dog")>>}

\* the edges that can stand at place k of the edge list; node 4 does not exist
ExportEdges(k) ==
    {CanvasEdge(k, s, t, l) : s \in 1..3, t \in 1..3, l \in {"subClassOf", "breed"}}
    \cup {CanvasDatatypeEdge(k, s, "breed", d) : s \in 1..3, d \in {"string", "datetime"}}
    \cup {CanvasEdge(k, 2, 4, "subClassOf"), CanvasEdge(k, 2, 1, "")}

ExportEdgeLists ==
    UNION {{es \in [1..n -> UNION {ExportEdges(k) : k \in 1..n}] :
               \A k \in 1..n : es[k] \in ExportEdges(k)} : n \in 0..MaxExportEdges}

\* the other variables of the panel when a drawn graph is on the canvas
CanvasIdle ==
    /\ clock = 0 /\ turns = 0
    /\ actions = <<>> /\ readings = <<>>
    /\ prevNodes = <<>> /\ prevEdges = <<>>
    /\ heldNodes = <<>> /\ heldEdges = <<>>
    /\ published = <<>> /\ content = <<>> /\ updatedGraph = <<>>
    /\ hierarchy = <<>> /\ rows = <<>> /\ triples = <<>>

ExportInit ==
    /\ nodes \in ExportNodeLists
    /\ edges \in ExportEdgeLists
    /\ CanvasIdle
    /\ ParserIdle
    /\ ExportIdle
    /\ UiIdle

\* the Turtle download
DownloadTurtle ==
    /\ turtle = <<>>
    /\ turtle' = generateTurtle(nodes, edges)
    /\ UNCHANGED <<chatVars, parserVars, jsonld, imported, kg, kgJsonld, uiVars>>

\* handleShowJson with no knowledge graph selected
ShowJson ==
    /\ jsonld = NoDocument
    /\ jsonld' = OntologyJsonLd(nodes, edges)
    /\ UNCHANGED <<chatVars, parserVars, turtle, imported, kg, kgJsonld, uiVars>>

\* the shown document is imported as a new ontology
Import ==
    /\ jsonld # NoDocument
    /\ imported = <<>>
    /\ imported' = ImportJsonLd(jsonld)
    /\ UNCHANGED <<chatVars, parserVars, turtle, jsonld, kg, kgJsonld, uiVars>>

ExportNext == DownloadTurtle \/ ShowJson \/ Import

ExportSpec == ExportInit /\ [][ExportNext]_vars

----------------------------------------------------------------------------
(* The export of a knowledge graph over the classes Dog and Toy *)

Names == {"Rex", "Big Ben", "Big_Ben"}

\* the lists of distinct names of length n, and of length up to n
NameLists(n) ==
    UNION {{l \in [1..m -> Names] : \A i, j \in 1..m : l[i] = l[j] => i = j} : m \in 0..n}

RelKeys ==
    {<<"Dog", "owns", "Toy">>, <<"Toy", "likes", "Dog">>, <<"Dog", "owns", "Dog">>,
     <<"Dog", "owns", "Cat">>, <<"Dog", "owns">>}

RelationshipEntries == {[parts |-> k, values |-> v] : k \in RelKeys, v \in NameLists(MaxInstances)}

\* the relationship maps: no key twice
RelationshipMaps ==
    UNION {{r \in [1..n -> RelationshipEntries] :
               \A i, j \in 1..n : r[i].parts = r[j].parts => i = j} : n \in 0..MaxRelationships}

InstanceMaps ==
    {<<[class |-> "Dog", names |-> d], [class |-> "Toy", names |-> t]>> :
        d \in NameLists(MaxInstances), t \in NameLists(MaxInstances)}

KgInit ==
    /\ ChatIdle
    /\ ParserIdle
    /\ UiIdle
    /\ turtle = <<>>
    /\ jsonld = NoDocument
    /\ imported = <<>>
    /\ kg \in [instances : InstanceMaps, relationships : RelationshipMaps]
    /\ kgJsonld = NoDocument

\* handleShowJson with a knowledge graph selected: its data is fetched and shown
ShowKgJson ==
    /\ kgJsonld = NoDocument
    /\ kgJsonld' = KnowledgeGraphJsonLd(kg)
    /\ UNCHANGED <<chatVars, parserVars, turtle, jsonld, imported, kg, uiVars>>

KgNext == ShowKgJson

KgSpec == KgInit /\ [][KgNext]_vars

----------------------------------------------------------------------------
(* FileManager: the import dialog.  A file is [json, context]: its text    *)
(* parses as a JSON object, the object has a truthy @context.  The state   *)
(* is [files, reading, jsonldContent, importError, newName, requests]:     *)
(* the files selected so far, the handleFileSelect calls waiting on        *)
(* file.text() as [file, newName] with the newName of their render, the    *)
(* index of the file whose document is loaded (0 for null), and the import *)
(* requests sent, each [jsonld, last, answered] with the index of the file *)
(* it carries and of the file that was selected last when it was sent.     *)

Files == {[json |-> TRUE, context |-> TRUE], [json |-> TRUE, context |-> FALSE],
          [json |-> FALSE, context |-> FALSE]}

FileInit ==
    /\ ChatIdle /\ ParserIdle /\ ExportIdle
    /\ kgEditor = <<>> /\ session = <<>>
    /\ fileManager = [files |-> <<>>, reading |-> {}, jsonldContent |-> 0,
                      importError |-> "", newName |-> "", requests |-> <<>>]

\* handleFileSelect up to await file.text()
HandleFileSelect ==
    /\ Len(fileManager.files) < MaxFiles
    /\ \E file \in Files :
         fileManager' =
            [fileManager EXCEPT
                !.files = Append(@, file),
                !.importError = "",
                !.jsonldContent = 0,
                !.reading = @ \cup {[file |-> Len(fileManager.files) + 1,
                                     newName |-> fileManager.newName]}]
    /\ UNCHANGED <<chatVars, parserVars, exportVars, kgEditor, session>>

\* handleFileSelect from the moment file.text() has resolved
FileRead ==
    /\ \E r \in fileManager.reading :
         LET file == fileManager.files[r.file]
             rest == [fileManager EXCEPT !.reading = @ \ {r}]
         IN  fileManager' =
                IF ~file.json THEN [rest EXCEPT !.importError = "Invalid JSON file"]
                ELSE IF ~file.context
                THEN [rest EXCEPT !.importError = "Invalid JSON-LD: Missing @context"]
                ELSE [rest EXCEPT !.jsonldContent = r.file,
                                  !.newName = IF r.newName = "" THEN "file name" ELSE @]
    /\ UNCHANGED <<chatVars, parserVars, exportVars, kgEditor, session>>

\* the name field is edited
SetNewName ==
    /\ \E name \in {"", "Pets"} :
         /\ name # fileManager.newName
         /\ fileManager' = [fileManager EXCEPT !.newName = name]
    /\ UNCHANGED <<chatVars, parserVars, exportVars, kgEditor, session>>

\* handleImport up to the request
HandleImport ==
    /\ fileManager.newName # ""
    /\ fileManager.jsonldContent # 0
    /\ Len(fileManager.requests) < MaxRequests
    /\ fileManager' =
          [fileManager EXCEPT
              !.importError = "",
              !.requests = Append(@, [jsonld |-> fileManager.jsonldContent,
                                      last |-> Len(fileManager.files),
                                      answered |-> FALSE])]
    /\ UNCHANGED <<chatVars, parserVars, exportVars, kgEditor, session>>

\* handleImport from the response on: resetDialog after an ontology was made
ImportResponse ==
    /\ \E k \in 1..Len(fileManager.requests) : \E ok \in BOOLEAN :
         /\ ~fileManager.requests[k].answered
         /\ fileManager' =
               IF ok
               THEN [fileManager EXCEPT !.requests[k].answered = TRUE,
                                        !.newName = "", !.importError = "",
                                        !.jsonldContent = 0]
               ELSE [fileManager EXCEPT !.requests[k].answered = TRUE,
                                        !.importError = "Import failed"]
    /\ UNCHANGED <<chatVars, parserVars, exportVars, kgEditor, session>>

FileNext == HandleFileSelect \/ FileRead \/ SetNewName \/ HandleImport \/ ImportResponse

FileSpec == FileInit /\ [][FileNext]_vars

----------------------------------------------------------------------------
(* TriplesView: the editor of one selected knowledge graph.  A map is a    *)
(* function from the keys it has to values; a text is the sequence of the  *)
(* pieces between its commas, " " being a piece of white space.  The state *)
(* is [stored, kgData, inputValues, relationshipValues, registered, saves, *)
(* refreshes]: the record of the backend as [instances, relationships],    *)
(* the three pieces of component state, the inputValues and                *)
(* relationshipValues closed over by the function the save effect          *)
(* registered last as window.saveKnowledgeGraph, the saves started, and    *)
(* the number of list fetches of onKnowledgeGraphUpdate not yet answered.  *)
(* A save is [kind, stage, instances, relationships, key, values, entered] *)
(* with kind "value", "relationship" or "save", stage "get", "put", "done" *)
(* or "failed", and entered the inputValues and relationshipValues on the  *)
(* screen when it started.                                                 *)

DogClass == "Dog"

OwnsKey == <<"Dog", "owns", "Toy">>

Texts == {<<"">>, <<"Rex", " ">>}

\* text.split(',').map(v => v.trim()).filter(v => v.length > 0)
ParseValues(typed) ==
    LET trimmed == [i \in 1..Len(typed) |-> IF typed[i] = " " THEN "" ELSE typed[i]]
        NonEmpty(v) == v # ""
    IN  SelectSeq(trimmed, NonEmpty)

\* map[key]?.split(',')... || []
ValuesAt(map, key) == IF key \in DOMAIN map THEN ParseValues(map[key]) ELSE <<>>

\* {...map, [key]: value}
PutKey(map, key, value) ==
    [k \in DOMAIN map \cup {key} |-> IF k = key THEN value ELSE map[k]]

\* the forEach loops of handleSave: the keys whose text has a value
BuildFrom(map) ==
    LET keys == {k \in DOMAIN map : ParseValues(map[k]) # <<>>}
    IN  [k \in keys |-> ParseValues(map[k])]

NewSave(kind) ==
    [kind |-> kind, stage |-> "get", instances |-> <<>>, relationships |-> <<>>,
     key |-> <<>>, values |-> <<>>,
     entered |-> [inputValues |-> kgEditor.inputValues,
                  relationshipValues |-> kgEditor.relationshipValues]]

\* a knowledge graph just created and selected: the load effect found it empty
\* and the save effect has run on that render
KgEditInit ==
    /\ ChatIdle /\ ParserIdle /\ ExportIdle
    /\ fileManager = <<>> /\ session = <<>>
    /\ kgEditor = [stored |-> [instances |-> <<>>, relationships |-> <<>>],
                   kgData |-> <<>>, inputValues |-> <<>>,
                   relationshipValues |-> <<>>,
                   registered |-> [inputValues |-> <<>>,
                                   relationshipValues |-> <<>>],
                   saves |-> <<>>, refreshes |-> 0]

\* handleValueChange and the render after it: inputValues is a dependency of
\* the save effect, which registers a handleSave of this render
HandleValueChange ==
    /\ \E typed \in Texts :
         LET inputs == PutKey(kgEditor.inputValues, DogClass, typed)
         IN  /\ inputs # kgEditor.inputValues
             /\ kgEditor' =
                   [kgEditor EXCEPT
                       !.inputValues = inputs,
                       !.registered =
                           [inputValues |-> inputs,
                            relationshipValues |-> kgEditor.relationshipValues]]
    /\ UNCHANGED <<chatVars, parserVars, exportVars, fileManager, session>>

\* handleRelationshipChange and the render after it: relationshipValues is no
\* dependency of the save effect, the registered function stays
HandleRelationshipChange ==
    /\ \E typed \in Texts :
         LET rels == PutKey(kgEditor.relationshipValues, OwnsKey, typed)
         IN  /\ rels # kgEditor.relationshipValues
             /\ kgEditor' = [kgEditor EXCEPT !.relationshipValues = rels]
    /\ UNCHANGED <<chatVars, parserVars, exportVars, fileManager, session>>

\* handleValueBlur up to its GET
HandleValueBlur ==
    /\ Len(kgEditor.saves) < MaxSaves
    /\ LET values == ValuesAt(kgEditor.inputValues, DogClass)
           newInstances == PutKey(kgEditor.kgData, DogClass, values)
       IN  kgEditor' =
              [kgEditor EXCEPT
                  !.kgData = newInstances,
                  !.saves = Append(@, [NewSave("value") EXCEPT
                                          !.instances = newInstances,
                                          !.key = DogClass,
                                          !.values = values])]
    /\ UNCHANGED <<chatVars, parserVars, exportVars, fileManager, session>>

\* handleRelationshipBlur up to its GET; kgData is the one of its render
HandleRelationshipBlur ==
    /\ Len(kgEditor.saves) < MaxSaves
    /\ kgEditor' =
          [kgEditor EXCEPT
              !.saves = Append(@, [NewSave("relationship") EXCEPT
                                      !.instances = kgEditor.kgData,
                                      !.key = OwnsKey,
                                      !.values = ValuesAt(kgEditor.relationshipValues,
                                                          OwnsKey)])]
    /\ UNCHANGED <<chatVars, parserVars, exportVars, fileManager, session>>

\* the Save button: the registered handleSave up to its GET
HandleSave ==
    /\ Len(kgEditor.saves) < MaxSaves
    /\ kgEditor' =
          [kgEditor EXCEPT
              !.saves = Append(@, [NewSave("save") EXCEPT
                  !.instances = BuildFrom(kgEditor.registered.inputValues),
                  !.relationships =
                      BuildFrom(kgEditor.registered.relationshipValues)])]
    /\ UNCHANGED <<chatVars, parserVars, exportVars, fileManager, session>>

\* the GET of a save is answered, and the handler goes on to its PUT
GetServed ==
    /\ \E k \in 1..Len(kgEditor.saves) : \E ok \in BOOLEAN :
         LET save == kgEditor.saves[k]
             current == kgEditor.stored.relationships
         IN  /\ save.stage = "get"
             /\ kgEditor' =
                   IF ~ok THEN [kgEditor EXCEPT !.saves[k].stage = "failed"]
                   ELSE [kgEditor EXCEPT
                           !.saves[k].stage = "put",
                           !.saves[k].relationships =
                               IF save.kind = "value" THEN current
                               ELSE IF save.kind = "relationship"
                               THEN PutKey(current, save.key, save.values)
                               ELSE @]
    /\ UNCHANGED <<chatVars, parserVars, exportVars, fileManager, session>>

\* the PUT of a save is answered, and the handler runs to its end
PutServed ==
    /\ \E k \in 1..Len(kgEditor.saves) : \E ok \in BOOLEAN :
         LET save == kgEditor.saves[k]
         IN  /\ save.stage = "put"
             /\ kgEditor' =
                   IF ~ok THEN [kgEditor EXCEPT !.saves[k].stage = "failed"]
                   ELSE [kgEditor EXCEPT
                           !.saves[k].stage = "done",
                           !.stored = [instances |-> save.instances,
                                       relationships |-> save.relationships],
                           !.kgData = IF save.kind = "save" THEN save.instances
                                      ELSE @,
                           !.refreshes = @ + 1]
    /\ UNCHANGED <<chatVars, parserVars, exportVars, fileManager, session>>

\* the list fetch of onKnowledgeGraphUpdate is answered: App renders, passes
\* a new onKnowledgeGraphUpdate, and the save effect registers again
Refreshed ==
    /\ kgEditor.refreshes > 0
    /\ kgEditor' =
          [kgEditor EXCEPT
              !.refreshes = @ - 1,
              !.registered =
                  [inputValues |-> kgEditor.inputValues,
                   relationshipValues |-> kgEditor.relationshipValues]]
    /\ UNCHANGED <<chatVars, parserVars, exportVars, fileManager, session>>

KgEditNext ==
    \/ HandleValueChange \/ HandleRelationshipChange
    \/ HandleValueBlur \/ HandleRelationshipBlur \/ HandleSave
    \/ GetServed \/ PutServed \/ Refreshed

KgEditSpec == KgEditInit /\ [][KgEditNext]_vars

----------------------------------------------------------------------------
(* App and its ChatPanel over one login.  A graph is [of, applied]: the    *)
(* ontology whose graph it is (0 for the empty lists) and the chat turns   *)
(* whose batches were applied to it; a knowledge graph is [of, n].  The    *)
(* state holds App's auth, currentOntology, activeTab, nodes and edges     *)
(* (graph), knowledgeGraphs and selectedKnowledgeGraph; the ChatPanel      *)
(* instances mounted so far as [nodesRef, isLoading] and the one mounted   *)
(* now (0 for none); the chat turns sent as [instance, ontologyId, stage,  *)
(* base] with the ontologyId of the render that sent them and, once an     *)
(* answer with actions was handled, the graph they were applied to; the    *)
(* fetches of handleSelectOntology, of the knowledge-graph effect and of   *)
(* handleCreateKnowledgeGraph; and the backend: the graph stored for each  *)
(* ontology, the PUTs it received as [id, graph], and the knowledge graphs *)
(* of each ontology.                                                       *)

Ontologies == {1, 2}

NoGraph == [of |-> 0, applied |-> <<>>]

NoKg == [of |-> 0, n |-> 0]

\* the lists after the batch of turn k was applied to the lists g
WithBatch(g, k) == [g EXCEPT !.applied = Append(@, k)]

\* the render after App's state became s: ChatPanel is mounted under the
\* triples tab only, a new instance starts with isLoading false, and the
\* effect of the mounted instance copies nodes and edges into its refs
Render(s) ==
    IF s.activeTab # "triples" THEN [s EXCEPT !.mounted = 0]
    ELSE IF s.mounted = 0
    THEN [s EXCEPT !.panels = Append(@, [nodesRef |-> s.graph, isLoading |-> FALSE]),
                   !.mounted = Len(s.panels) + 1]
    ELSE [s EXCEPT !.panels[s.mounted].nodesRef = s.graph]

Mounts(s) == s.activeTab = "triples" /\ s.mounted = 0

\* the effect that loads the knowledge graphs, run for the state s
LoadKnowledgeGraphs(s) ==
    IF s.loggedIn /\ s.currentOntology # 0
    THEN [s EXCEPT !.listRequests = Append(@, [of |-> s.currentOntology,
                                               answered |-> FALSE])]
    ELSE [s EXCEPT !.knowledgeGraphs = {}, !.selectedKnowledgeGraph = NoKg]

SessionInit ==
    /\ ChatIdle /\ ParserIdle /\ ExportIdle
    /\ fileManager = <<>> /\ kgEditor = <<>>
    /\ session = [loggedIn |-> TRUE, currentOntology |-> 0, activeTab |-> "file",
                  graph |-> NoGraph, panels |-> <<>>, mounted |-> 0,
                  turns |-> <<>>, selections |-> <<>>,
                  knowledgeGraphs |-> {}, selectedKnowledgeGraph |-> NoKg,
                  listRequests |-> <<>>, creations |-> <<>>,
                  stored |-> [o \in Ontologies |-> [of |-> o, applied |-> <<>>]],
                  saves |-> <<>>,
                  kgs |-> [o \in Ontologies |-> {[of |-> o, n |-> 1]}]]

\* a tab button
SetActiveTab ==
    /\ session.loggedIn
    /\ \E tab \in {"file", "triples"} :
         LET s == [session EXCEPT !.activeTab = tab]
         IN  /\ tab # session.activeTab
             /\ Mounts(s) => Len(session.panels) < MaxPanels
             /\ session' = Render(s)
    /\ UNCHANGED <<chatVars, parserVars, exportVars, fileManager, kgEditor>>

\* handleSelectOntology up to its fetch; FileManager is under the file tab
HandleSelectOntology ==
    /\ session.loggedIn /\ session.activeTab = "file"
    /\ Len(session.selections) < MaxSelections
    /\ \E o \in Ontologies :
         session' = [session EXCEPT
                        !.selections = Append(@, [ontology |-> o, answered |-> FALSE])]
    /\ UNCHANGED <<chatVars, parserVars, exportVars, fileManager, kgEditor>>

\* handleSelectOntology from the answer on, and the effects of the render
OntologyLoaded ==
    /\ \E k \in 1..Len(session.selections) : \E ok \in BOOLEAN :
         LET o == session.selections[k].ontology
             rest == [session EXCEPT !.selections[k].answered = TRUE]
             s == [rest EXCEPT !.currentOntology = o,
                               !.graph = session.stored[o],
                               !.activeTab = "triples"]
         IN  /\ ~session.selections[k].answered
             /\ IF ~ok THEN session' = rest
                ELSE /\ Mounts(s) => Len(session.panels) < MaxPanels
                     /\ session' = LoadKnowledgeGraphs(Render(s))
    /\ UNCHANGED <<chatVars, parserVars, exportVars, fileManager, kgEditor>>

\* handleLogout, and the effects of the render
HandleLogout ==
    /\ session.loggedIn
    /\ session' = LoadKnowledgeGraphs(Render(
                      [session EXCEPT !.loggedIn = FALSE, !.currentOntology = 0,
                                      !.graph = NoGraph, !.activeTab = "file"]))
    /\ UNCHANGED <<chatVars, parserVars, exportVars, fileManager, kgEditor>>

\* handleSend of the mounted ChatPanel up to its fetch
HandleSend ==
    /\ session.mounted # 0
    /\ session.currentOntology # 0
    /\ ~session.panels[session.mounted].isLoading
    /\ Len(session.turns) < MaxChatTurns
    /\ session' =
          [session EXCEPT
              !.panels[session.mounted].isLoading = TRUE,
              !.turns = Append(@, [instance |-> session.mounted,
                                   ontologyId |-> session.currentOntology,
                                   stage |-> "sent", base |-> NoGraph])]
    /\ UNCHANGED <<chatVars, parserVars, exportVars, fileManager, kgEditor>>

\* handleSend from the answer on: the graph of the backend is published, or
\* the actions are applied to the refs of the instance that sent the turn,
\* published and saved under the ontologyId of its render; then isLoading
\* of that instance is cleared
ChatResponse ==
    /\ \E k \in 1..Len(session.turns) :
       \E kind \in {"updated_graph", "actions", "none", "error"} :
         LET turn == session.turns[k]
             base == session.panels[turn.instance].nodesRef
             result == WithBatch(base, k)
             handled == [session EXCEPT !.turns[k].stage = kind,
                                        !.panels[turn.instance].isLoading = FALSE]
         IN  /\ turn.stage = "sent"
             /\ session' =
                  IF kind = "updated_graph"
                  THEN Render([handled EXCEPT
                          !.graph = WithBatch(session.stored[turn.ontologyId], k)])
                  ELSE IF kind = "actions"
                  THEN Render([handled EXCEPT
                          !.turns[k].base = base,
                          !.graph = result,
                          !.stored[turn.ontologyId] = result,
                          !.saves = Append(@, [id |-> turn.ontologyId,
                                               graph |-> result])])
                  ELSE handled
    /\ UNCHANGED <<chatVars, parserVars, exportVars, fileManager, kgEditor>>

\* a fetch of the knowledge-graph effect is answered
KnowledgeGraphsLoaded ==
    /\ \E k \in 1..Len(session.listRequests) : \E ok \in BOOLEAN :
         LET rest == [session EXCEPT !.listRequests[k].answered = TRUE]
         IN  /\ ~session.listRequests[k].answered
             /\ session' =
                  IF ok
                  THEN [rest EXCEPT
                          !.knowledgeGraphs = session.kgs[session.listRequests[k].of],
                          !.selectedKnowledgeGraph = NoKg]
                  ELSE [rest EXCEPT !.knowledgeGraphs = {}]
    /\ UNCHANGED <<chatVars, parserVars, exportVars, fileManager, kgEditor>>

\* the select of the toolbar
SelectKnowledgeGraph ==
    /\ session.activeTab = "triples" /\ session.currentOntology # 0
    /\ \E choice \in session.knowledgeGraphs \cup {NoKg} :
         /\ choice # session.selectedKnowledgeGraph
         /\ session' = [session EXCEPT !.selectedKnowledgeGraph = choice]
    /\ UNCHANGED <<chatVars, parserVars, exportVars, fileManager, kgEditor>>

\* handleCreateKnowledgeGraph up to its POST
HandleCreateKnowledgeGraph ==
    /\ session.activeTab = "triples" /\ session.currentOntology # 0
    /\ Len(session.creations) < MaxCreations
    /\ session' = [session EXCEPT
                      !.creations = Append(@, [of |-> session.currentOntology,
                                               answered |-> FALSE])]
    /\ UNCHANGED <<chatVars, parserVars, exportVars, fileManager, kgEditor>>

\* handleCreateKnowledgeGraph from the answers of its POST and its GET on
KnowledgeGraphCreated ==
    /\ \E k \in 1..Len(session.creations) : \E ok \in BOOLEAN :
         LET o == session.creations[k].of
             new == [of |-> o, n |-> Cardinality(session.kgs[o]) + 1]
             rest == [session EXCEPT !.creations[k].answered = TRUE]
         IN  /\ ~session.creations[k].answered
             /\ session' =
                  IF ok
                  THEN [rest EXCEPT !.kgs[o] = @ \cup {new},
                                    !.knowledgeGraphs = session.kgs[o] \cup {new},
                                    !.selectedKnowledgeGraph = new]
                  ELSE rest
    /\ UNCHANGED <<chatVars, parserVars, exportVars, fileManager, kgEditor>>

SessionNext ==
    \/ SetActiveTab \/ HandleSelectOntology \/ OntologyLoaded \/ HandleLogout
    \/ HandleSend \/ ChatResponse
    \/ KnowledgeGraphsLoaded \/ SelectKnowledgeGraph
    \/ HandleCreateKnowledgeGraph \/ KnowledgeGraphCreated

SessionSpec == SessionInit /\ [][SessionNext]_vars

----------------------------------------------------------------------------
(* What the claims speak of *)

PrevGraph == Graph(prevNodes, prevEdges)

Single(kind) == Len(actions) = 1 /\ actions[1].action = kind

LabelSeq(ns) == [i \in 1..Len(ns) |-> ns[i].label]

LabelsOf(ns) == {ns[i].label : i \in 1..Len(ns)}

\* the edges with ids replaced by labels: (sourceLabel, predicate, targetLabel-or-datatype)
TripleSeq(ns, es) ==
    [i \in 1..Len(es) |->
        <<FindById(ns, es[i].source).label, es[i].label,
          IF es[i].target = NoId THEN es[i].datatype
          ELSE FindById(ns, es[i].target).label>>]

IsAdd(a) == a.action \in {"add_node", "add_edge", "add_property"}

\* exactly one of target and datatype is set
ExactlyOne(e) == (e.target # NoId) # (e.datatype # "")

\* the sequence s without its element at index k
Without(s, k) == [i \in 1..(Len(s) - 1) |-> IF i < k THEN s[i] ELSE s[i + 1]]

FirstIndex(ns, l) == MinOf({i \in 1..Len(ns) : ns[i].label = l})

EdgesFromTo(es, s, t) == {i \in 1..Len(es) : es[i].source = s /\ es[i].target = t}

EdgesNamed(es, s, p) == {i \in 1..Len(es) : es[i].source = s /\ es[i].label = p}

----------------------------------------------------------------------------
(* C1: applying the same add_node, add_edge or add_property action twice,  *)
(* inside one batch or in two consecutive batches, yields the same node    *)
(* labels and the same (source, predicate, target) edges as applying it    *)
(* once; only ids may differ.  Checked on the lists of labels and of       *)
(* label triples, which is stronger than on their sets.                    *)
C1_Idempotent ==
    /\ (Len(actions) = 2 /\ actions[1] = actions[2] /\ IsAdd(actions[1])) =>
          LET once == ApplyLoop(PrevGraph, <<actions[1]>>, <<clock>>, 1)
          IN  /\ LabelSeq(nodes) = LabelSeq(once.nodes)
              /\ TripleSeq(nodes, edges) = TripleSeq(once.nodes, once.edges)
    /\ (Len(actions) = 1 /\ IsAdd(actions[1])) =>
          \A t \in clock..MaxClock :
             LET again == ApplyLoop(Graph(nodes, edges), actions, <<t>>, 1)
             IN  /\ LabelSeq(again.nodes) = LabelSeq(nodes)
                 /\ TripleSeq(again.nodes, again.edges) = TripleSeq(nodes, edges)

\* add_node Cat with parent Animal, twice in one batch, on the scenario graph:
\* three classes and two subClassOf edges
C1_Witness ==
    /\ actions = <<AddNodeAct("Cat", "Animal"), AddNodeAct("Cat", "Animal")>>
    /\ PrevGraph = Scenario
    /\ LabelSeq(nodes) = <<"Animal", "Dog", "Cat">>
    /\ TripleSeq(nodes, edges) = <<<<"Dog", "subClassOf", "Animal">>,
                                   <<"Cat", "subClassOf", "Animal">>>>

----------------------------------------------------------------------------
(* C2: every class of the graph appears exactly once as a class row of the *)
(* hierarchy view, as a root group or as a subclass row: in the result of  *)
(* buildHierarchy (a group or a subClassOf entry of a group) and in the    *)
(* rows rendered from it (a subject row or a subclass row).                *)
GroupsOf(n) ==
    {k \in 1..Len(hierarchy) :
        hierarchy[k].nodeId = n.id /\ hierarchy[k].label = n.label}

SubclassEntriesOf(n) ==
    {<<k, m>> \in (1..Len(hierarchy)) \X (1..Len(nodes) + Len(edges)) :
        /\ m <= Len(hierarchy[k].properties)
        /\ hierarchy[k].properties[m].predicate = "subClassOf"
        /\ hierarchy[k].properties[m].childNodeId = n.id
        /\ hierarchy[k].properties[m].object = n.label}

ClassRows(n) ==
    {k \in 1..Len(rows) :
        /\ rows[k].isFirst \/ rows[k].isSubclass
        /\ rows[k].nodeId = n.id
        /\ rows[k].subject = n.label}

C2_EachClassOnce ==
    \A i \in 1..Len(nodes) :
        /\ Cardinality(GroupsOf(nodes[i])) + Cardinality(SubclassEntriesOf(nodes[i])) = 1
        /\ Cardinality(ClassRows(nodes[i])) = 1

----------------------------------------------------------------------------
(* C3: every edge the applier creates has exactly one of target and        *)
(* datatype set, so a batch applied to a graph whose edges all have        *)
(* exactly one of them returns a graph whose edges all have.               *)
C3_EdgeInvariant ==
    /\ \A i \in 1..Len(edges) :
          edges[i] \notin Range(prevEdges) => ExactlyOne(edges[i])
    /\ (\A i \in 1..Len(prevEdges) : ExactlyOne(prevEdges[i]))
          => \A i \in 1..Len(edges) : ExactlyOne(edges[i])

\* a batch has created a subClassOf edge and a property edge, another an
\* add_edge edge beside a datatype edge that was loaded
C3_Witness ==
    \/ /\ actions = <<AddNodeAct("Cat", "Animal"), AddPropertyAct("Cat", "breed")>>
       /\ PrevGraph = Scenario
       /\ Len(edges) = Len(prevEdges) + 2
    \/ /\ actions = <<AddEdgeAct("Dog", "Animal", "")>>
       /\ PrevGraph = Canvas
       /\ Len(edges) = Len(prevEdges) + 1

----------------------------------------------------------------------------
(* C4: remove_node with a label that resolves removes that node and every  *)
(* edge whose source or target is its id, and nothing else: the other      *)
(* nodes and the edges not touching it are kept, in their order.           *)
C4_RemoveNodeExact ==
    (Single("remove_node") /\ actions[1].label \in LabelsOf(prevNodes)) =>
        LET k == FirstIndex(prevNodes, actions[1].label)
            id == prevNodes[k].id
            untouched(e) == e.source # id /\ e.target # id
        IN  /\ nodes = Without(prevNodes, k)
            /\ edges = SelectSeq(prevEdges, untouched)

----------------------------------------------------------------------------
(* C5: add_node with a label not yet in the graph appends exactly one node *)
(* with that label; if a parent is given and a node of the graph carries   *)
(* the parent label it also appends exactly one subClassOf edge from the   *)
(* new node to that node; if the parent is absent or unresolvable no edge  *)
(* is added.                                                               *)
C5_AddNodeExact ==
    (/\ Single("add_node")
     /\ actions[1].label # ""
     /\ actions[1].label \notin LabelsOf(prevNodes)) =>
        LET a == actions[1]
            parentNode == FindByLabel(prevNodes, a.parent)
        IN  /\ Len(nodes) = Len(prevNodes) + 1
            /\ SubSeq(nodes, 1, Len(prevNodes)) = prevNodes
            /\ nodes[Len(nodes)].label = a.label
            /\ IF a.parent # "" /\ parentNode # NoNode
               THEN /\ Len(edges) = Len(prevEdges) + 1
                    /\ SubSeq(edges, 1, Len(prevEdges)) = prevEdges
                    /\ edges[Len(edges)].label = "subClassOf"
                    /\ edges[Len(edges)].source = nodes[Len(nodes)].id
                    /\ edges[Len(edges)].target = parentNode.id
               ELSE edges = prevEdges

----------------------------------------------------------------------------
(* C6: after a batch of add_property actions on a graph in which the class *)
(* had no edge of that name, the class has exactly one outgoing edge named *)
(* with the property and it goes to a node labelled String; whatever the   *)
(* graph, no second edge of the name is added (a graph with at most one    *)
(* edge per class and name keeps at most one), and a String node is        *)
(* created only when the graph has none: an existing one is reused.        *)
OnlyAddProperty ==
    /\ Len(actions) >= 1
    /\ \A i \in 1..Len(actions) : actions[i].action = "add_property"

StringNodes(ns) == {i \in 1..Len(ns) : ns[i].label = "String"}

----------------------------------------------------------------------------
(* C7: remove_edge with resolvable source and target removes every edge    *)
(* from the source node to the target node, whatever its predicate, and    *)
(* keeps every other edge, the opposite direction included.                *)
C7_RemoveEdgeExact ==
    (/\ Single("remove_edge")
     /\ actions[1].source \in LabelsOf(prevNodes)
     /\ actions[1].target \in LabelsOf(prevNodes)) =>
        LET s == FindByLabel(prevNodes, actions[1].source).id
            t == FindByLabel(prevNodes, actions[1].target).id
            other(e) == ~(e.source = s /\ e.target = t)
        IN  /\ nodes = prevNodes
            /\ EdgesFromTo(edges, s, t) = {}
            /\ edges = SelectSeq(prevEdges, other)

\* two parallel edges Dog -> String of different predicates are both removed,
\* the edge String -> Dog is kept
C7_Witness ==
    /\ actions = <<RemoveEdgeAct("Dog", "String")>>
    /\ PrevGraph = Parallel
    /\ TripleSeq(prevNodes, prevEdges) = <<<<"Dog", "subClassOf", "String">>,
                                           <<"Dog", "breed", "String">>,
                                           <<"String", "relatedTo", "Dog">>>>
    /\ TripleSeq(nodes, edges) = <<<<"String", "relatedTo", "Dog">>>>

----------------------------------------------------------------------------
(* C8: add_edge with resolved source and target is a no-op exactly when an *)
(* edge with the same source, the same predicate and the same target       *)
(* exists, and otherwise appends one edge labelled with the given label    *)
(* (default relatedTo).                                                    *)
C8_AddEdgeKeyedOnTriple ==
    (/\ Single("add_edge")
     /\ actions[1].source \in LabelsOf(prevNodes)
     /\ actions[1].target \in LabelsOf(prevNodes)) =>
        LET s == FindByLabel(prevNodes, actions[1].source).id
            t == FindByLabel(prevNodes, actions[1].target).id
            predicate == IF actions[1].label # "" THEN actions[1].label
                         ELSE "relatedTo"
            same == {i \in EdgesFromTo(prevEdges, s, t) :
                        prevEdges[i].label = predicate}
        IN  /\ nodes = prevNodes
            /\ IF same # {} THEN edges = prevEdges
               ELSE /\ Len(edges) = Len(prevEdges) + 1
                    /\ SubSeq(edges, 1, Len(prevEdges)) = prevEdges
                    /\ edges[Len(edges)].source = s
                    /\ edges[Len(edges)].target = t
                    /\ edges[Len(edges)].label = predicate

----------------------------------------------------------------------------
(* C9: add_property on a class that already has an outgoing edge named     *)
(* with the property is a no-op: the node list and the edge list are those *)
(* before the action.                                                      *)
C9_AddPropertyNoOp ==
    (/\ Single("add_property")
     /\ actions[1].class \in LabelsOf(prevNodes)
     /\ EdgesNamed(prevEdges, FindByLabel(prevNodes, actions[1].class).id,
                   actions[1].property) # {}) =>
        /\ nodes = prevNodes
        /\ edges = prevEdges

----------------------------------------------------------------------------
(* C10: within one batch each action sees the effects of the earlier ones: *)
(* an add_edge or add_property that refers to a class created by the       *)
(* add_node before it resolves it, and an action that refers to a class    *)
(* removed by the remove_node before it does not.                          *)
RefersTo(a, l) ==
    \/ a.action \in {"add_edge", "remove_edge"} /\ (a.source = l \/ a.target = l)
    \/ a.action = "add_property" /\ a.class = l

\* the add_node before created the class l, and a (an add_edge or an
\* add_property) names l and otherwise only classes of the graph
UsesCreated(a, l) ==
    \/ /\ a.action = "add_edge"
       /\ (a.source = l \/ a.target = l)
       /\ {a.source, a.target} \subseteq LabelsOf(prevNodes) \cup {l}
    \/ a.action = "add_property" /\ a.class = l /\ a.property # ""

C10_SeesEarlierEffects ==
    Len(actions) = 2 =>
        LET first == actions[1]
            second == actions[2]
        IN  /\ (/\ first.action = "add_node"
                /\ first.label # ""
                /\ first.label \notin LabelsOf(prevNodes)
                /\ UsesCreated(second, first.label)) =>
                   /\ first.label \in LabelsOf(nodes)
                   /\ second.action = "add_edge" =>
                         EdgesFromTo(edges, FindByLabel(nodes, second.source).id,
                                     FindByLabel(nodes, second.target).id) # {}
                   /\ second.action = "add_property" =>
                         EdgesNamed(edges, FindByLabel(nodes, second.class).id,
                                    second.property) # {}
            /\ (/\ first.action = "remove_node"
                /\ first.label \in LabelsOf(prevNodes)
                /\ RefersTo(second, first.label)
                /\ \A i \in 1..Len(prevNodes) :
                      prevNodes[i].label = first.label =>
                         prevNodes[i].id = FindByLabel(prevNodes, first.label).id) =>
                   LET id == FindByLabel(prevNodes, first.label).id
                       keepNode(n) == n.id # id
                       keepEdge(e) == e.source # id /\ e.target # id
                   IN  /\ first.label \notin LabelsOf(nodes)
                       /\ nodes = SelectSeq(prevNodes, keepNode)
                       /\ edges = SelectSeq(prevEdges, keepEdge)

\* on the scenario graph: add_node Cat, then add_edge Cat -> Animal, creates
\* the edge; remove_node Dog, then add_edge Dog -> Animal, creates none
C10_Witness ==
    \/ /\ actions = <<AddNodeAct("Cat", ""), AddEdgeAct("Cat", "Animal", "")>>
       /\ PrevGraph = Scenario
       /\ TripleSeq(nodes, edges) = <<<<"Dog", "subClassOf", "Animal">>,
                                      <<"Cat", "relatedTo", "Animal">>>>
    \/ /\ actions = <<RemoveNodeAct("Dog"), AddEdgeAct("Dog", "Animal", "")>>
       /\ PrevGraph = Scenario
       /\ LabelSeq(nodes) = <<"Animal">>
       /\ edges = <<>>

----------------------------------------------------------------------------
(* C11: an action that names a label it must resolve and the graph does    *)
(* not hold (the label of remove_node, the source or target of add_edge    *)
(* and remove_edge, the class of add_property), or that lacks a field its  *)
(* case requires, changes nothing, and the other actions of the batch are  *)
(* applied: the batch gives what it gives with those actions deleted.      *)
Unresolvable(g, a) ==
    CASE a.action = "add_node" -> a.label = ""
      [] a.action = "remove_node" -> a.label \notin LabelsOf(g.nodes)
      [] a.action \in {"add_edge", "remove_edge"} ->
            \/ a.source \notin LabelsOf(g.nodes)
            \/ a.target \notin LabelsOf(g.nodes)
      [] a.action = "add_property" ->
            a.class \notin LabelsOf(g.nodes) \/ a.property = ""
      [] OTHER -> TRUE

\* the indices of the actions of the batch that are not unresolvable in the
\* graph they meet
RECURSIVE ResolvedIndices(_, _, _, _)
ResolvedIndices(g, batch, times, i) ==
    IF i > Len(batch) THEN <<>>
    ELSE (IF Unresolvable(g, batch[i]) THEN <<>> ELSE <<i>>)
         \o ResolvedIndices(ApplyAction(g, batch[i], times[i]), batch, times, i + 1)

C11_UnresolvableSkipped ==
    actions # <<>> =>
        LET keep == ResolvedIndices(PrevGraph, actions, readings, 1)
            batch == [k \in 1..Len(keep) |-> actions[keep[k]]]
            times == [k \in 1..Len(keep) |-> readings[keep[k]]]
        IN  Graph(nodes, edges) = ApplyLoop(PrevGraph, batch, times, 1)

\* on the scenario graph: remove_node Cat names no class and is skipped, the
\* add_node after it is applied; an add_property without property is skipped
\* and the add_edge after it is applied
C11_Witness ==
    \/ /\ actions = <<RemoveNodeAct("Cat"), AddNodeAct("Cat", "Animal")>>
       /\ PrevGraph = Scenario
       /\ LabelSeq(nodes) = <<"Animal", "Dog", "Cat">>
       /\ Len(edges) = 2
    \/ /\ actions = <<AddPropertyAct("Dog", ""), AddEdgeAct("Animal", "Dog", "")>>
       /\ PrevGraph = Scenario
       /\ nodes = prevNodes
       /\ Len(edges) = 2

----------------------------------------------------------------------------
(* C12: applying a batch leaves the arrays the caller held before it as    *)
(* they were, and hands over the new lists with one onGraphUpdate call     *)
(* after the last action: the only graph published is the final one.       *)
C12_PriorListsUntouched ==
    actions # <<>> =>
        /\ heldNodes = prevNodes
        /\ heldEdges = prevEdges
        /\ published = <<Graph(nodes, edges)>>

\* a batch that pushes a node and an edge, and one that pushes and filters
C12_Witness ==
    /\ PrevGraph = Scenario
    /\ heldNodes = prevNodes
    /\ \/ /\ actions = <<AddNodeAct("Cat", "Animal")>>
          /\ Len(nodes) = 3 /\ Len(edges) = 2
       \/ /\ actions = <<AddNodeAct("Cat", "Animal"), RemoveNodeAct("Dog")>>
          /\ LabelSeq(nodes) = <<"Animal", "Cat">>

----------------------------------------------------------------------------
(* C15: for a response exactly one path runs: with updated_graph that      *)
(* graph is published and the actions of the content are not applied;      *)
(* without it the actions of the content are applied and a graph is        *)
(* published only if there is at least one action; never two publications. *)
C15_OnePath ==
    turns >= 1 =>
        /\ Len(published) <= 1
        /\ updatedGraph # <<>> =>
              /\ published = updatedGraph
              /\ actions = <<>>
              /\ Graph(nodes, edges) = updatedGraph[1]
        /\ (updatedGraph = <<>> /\ content # <<>>) =>
              /\ actions = content
              /\ published = <<Graph(nodes, edges)>>
              /\ Graph(nodes, edges) = ApplyLoop(PrevGraph, content, readings, 1)
        /\ (updatedGraph = <<>> /\ content = <<>>) =>
              /\ published = <<>>
              /\ Graph(nodes, edges) = PrevGraph

\* a response whose content carries add_node Cat and whose updated_graph is
\* the scenario graph: the lists are the scenario graph, without Cat
C15_Witness ==
    /\ updatedGraph = <<Scenario>>
    /\ content = <<AddNodeAct("Cat", "Animal")>>
    /\ PrevGraph = Scenario
    /\ published = <<Scenario>>
    /\ LabelSeq(nodes) = <<"Animal", "Dog">>

----------------------------------------------------------------------------
(* C13: the content is scanned for inline action objects only when the     *)
(* fenced blocks yielded no action: when a fenced block produced one, no   *)
(* action object outside the fenced blocks is emitted; and the emitted     *)
(* actions come in the order of their places in the text.                  *)
Fence(body) == <<FenceOpen, NewLine>> \o body \o <<NewLine, FenceClose>>

BlocksOf(txt) == Blocks(txt, 1)

InBlocks(txt) ==
    {i \in 1..Len(txt) :
        \E k \in 1..Len(BlocksOf(txt)) :
            BlocksOf(txt)[k][1] <= i /\ i <= BlocksOf(txt)[k][2]}

FencedYield(txt) == FencedActions(txt, BlocksOf(txt), 1)

C13_InlineOnlyWithoutFenced ==
    scanned =>
        /\ FencedYield(text) # <<>> =>
              \A k \in 1..Len(extracted) : extracted[k].at \in InBlocks(text)
        /\ FencedYield(text) = <<>> => extracted = InlineActions(text)
        /\ \A i \in 1..Len(extracted) : \A j \in i..Len(extracted) :
              extracted[i].at <= extracted[j].at

----------------------------------------------------------------------------
(* C14: a fenced block whose whole-block parse fails gives every line of   *)
(* it that begins with {, parses as JSON and has an action field; the      *)
(* lines that do not parse give nothing; the blocks after it are processed *)
(* all the same: a block that parses to an object with an action gives it. *)
Places(as) == {as[k].at : k \in 1..Len(as)}

C14_MalformedSkipped ==
    scanned =>
        /\ \A k \in 1..Len(BlocksOf(text)) :
              LET lo == BlocksOf(text)[k][1]
                  hi == BlocksOf(text)[k][2]
                  lines == SplitLines(text, lo, hi)
              IN  /\ ParseKind(text, lo, hi) = "error" =>
                        \A n \in 1..Len(lines) :
                           (/\ lines[n][1] <= lines[n][2]
                            /\ text[lines[n][1]].t = "object"
                            /\ lines[n][1] = lines[n][2]
                            /\ text[lines[n][1]].action # "")
                              => lines[n][1] \in Places(extracted)
                  /\ ParseKind(text, lo, hi) = "object" =>
                        \A i \in NonSpace(text, lo, hi) :
                           text[i].action # "" => i \in Places(extracted)
        /\ \A k \in 1..Len(extracted) :
              /\ text[extracted[k].at].t = "object"
              /\ extracted[k].action = text[extracted[k].at].action
              /\ extracted[k].action # ""

\* a block of a line that does not parse and a line that does, then a block of
\* two objects on two lines: the three objects are returned
C14_Witness ==
    /\ scanned
    /\ text = Fence(<<Broken, NewLine, ObjB>>) \o Fence(<<ObjA, NewLine, ObjB>>)
    /\ [k \in 1..Len(extracted) |-> extracted[k].action]
          = <<"remove_node", "add_node", "remove_node">>

----------------------------------------------------------------------------
(* C16: in the Turtle export every non-subClassOf predicate is declared    *)
(* as owl:ObjectProperty at most once, the declaration being emitted for   *)
(* the first edge with the predicate and skipped for the others; and every *)
(* subClassOf edge with both endpoints in the graph is emitted as one      *)
(* ":Source rdfs:subClassOf :Target ." line.                               *)

Declarations(lines) == {i \in 1..Len(lines) : lines[i].kind = "a owl:ObjectProperty"}

BothEndpoints(ns, e) == FindById(ns, e.source) # NoNode /\ FindById(ns, e.target) # NoNode

C16_TurtleDeclaresOnce ==
    turtle # <<>> =>
        /\ \A i, j \in Declarations(turtle) : turtle[i].s = turtle[j].s => i = j
        /\ \A k \in 1..Len(edges) :
              (BothEndpoints(nodes, edges[k]) /\ Predicate(edges[k]) # "subClassOf") =>
                  \E i \in Declarations(turtle) :
                      turtle[i].s = Uri(":", toUri(Predicate(edges[k])), NoId)
        /\ \A k \in 1..Len(edges) :
              (BothEndpoints(nodes, edges[k]) /\ Predicate(edges[k]) = "subClassOf") =>
                  \E i \in 1..Len(turtle) :
                      /\ turtle[i].kind = "rdfs:subClassOf"
                      /\ turtle[i].s = UriOfNode(":", FindById(nodes, edges[k].source))
                      /\ turtle[i].o = UriOfNode(":", FindById(nodes, edges[k].target))

----------------------------------------------------------------------------
(* C17: in the ontology JSON-LD export the @graph holds exactly one        *)
(* property declaration per distinct pair (predicate URI, property kind):  *)
(* two edges with the same predicate and the same kind give one            *)
(* declaration, the same predicate once as datatype property and once as   *)
(* object property gives two.                                              *)

PropertyKinds == {"owl:DatatypeProperty", "owl:ObjectProperty"}

PropertyEntries(graph) == {i \in 1..Len(graph) : graph[i].type \in PropertyKinds}

\* the kind of the declaration an edge asks for, "" for an edge that asks for none
KindOf(e) ==
    IF e.datatype # "" THEN "owl:DatatypeProperty"
    ELSE IF e.target # NoId /\ Predicate(e) # "subClassOf" THEN "owl:ObjectProperty"
    ELSE ""

DeclaredPairs(es) ==
    {<<Uri("", toUri(Predicate(es[k])), NoId), KindOf(es[k])>> :
        k \in {k \in 1..Len(es) : KindOf(es[k]) # ""}}

C17_OneDeclarationPerPair ==
    jsonld # NoDocument =>
        /\ \A i, j \in PropertyEntries(jsonld.graph) :
              (jsonld.graph[i].id = jsonld.graph[j].id
               /\ jsonld.graph[i].type = jsonld.graph[j].type) => i = j
        /\ {<<jsonld.graph[i].id, jsonld.graph[i].type>> : i \in PropertyEntries(jsonld.graph)}
              = DeclaredPairs(edges)

\* two object properties of one predicate on two classes are exported as one declaration
C17_Witness ==
    /\ jsonld # NoDocument
    /\ Len(edges) = 2
    /\ KindOf(edges[1]) = "owl:ObjectProperty"
    /\ KindOf(edges[2]) = "owl:ObjectProperty"
    /\ Predicate(edges[1]) = Predicate(edges[2])
    /\ edges[1].source # edges[2].source
    /\ Cardinality(PropertyEntries(jsonld.graph)) = 1

----------------------------------------------------------------------------
(* C18: in the ontology JSON-LD export every subClassOf edge is folded     *)
(* into the class entry of its source: for each subClassOf edge the entry  *)
(* of the source class carries an rdfs:subClassOf reference to the target  *)
(* class, also when the class has several parents, and no property         *)
(* declaration with the id subClassOf is emitted.                          *)

IsSubClassOf(e) == e.datatype = "" /\ Predicate(e) = "subClassOf" /\ e.target # NoId

C18_SubClassOfFolded ==
    jsonld # NoDocument =>
        /\ \A k \in 1..Len(edges) :
              (IsSubClassOf(edges[k]) /\ BothEndpoints(nodes, edges[k])) =>
                  \E i \in 1..Len(jsonld.graph) :
                      /\ jsonld.graph[i].type = "owl:Class"
                      /\ jsonld.graph[i].id = LabelUri(nodes, edges[k].source)
                      /\ jsonld.graph[i].subClassOf = LabelUri(nodes, edges[k].target)
        /\ \A i \in PropertyEntries(jsonld.graph) : jsonld.graph[i].id.local # "subClassOf"

----------------------------------------------------------------------------
(* C19: exporting a graph to JSON-LD and importing the document back       *)
(* preserves the set of class labels and the set of (sourceLabel,          *)
(* predicate, targetLabel-or-datatype) triples of the original graph.      *)

\* the triples of a graph, an edge without label having the predicate relatedTo
TripleSet(ns, es) ==
    {<<FindById(ns, es[i].source).label, Predicate(es[i]),
       IF es[i].target = NoId THEN es[i].datatype
       ELSE FindById(ns, es[i].target).label>> : i \in 1..Len(es)}

C19_RoundTrip ==
    imported # <<>> =>
        /\ LabelsOf(imported[1].nodes) = LabelsOf(nodes)
        /\ TripleSet(imported[1].nodes, imported[1].edges) = TripleSet(nodes, edges)

----------------------------------------------------------------------------
(* C20: in the knowledge-graph JSON-LD export an instance entry carries a  *)
(* relationship property only toward target instances that are in the      *)
(* target class's instance list, and only if the entry's own instance is   *)
(* in the source class's list; a relationship value naming an instance     *)
(* absent from those lists never appears, and the stored relationships are *)
(* left unmodified.                                                        *)

\* the relationship r accounts for the reference to target under key on the entry e
Accounts(r, e, key, target) ==
    /\ Len(r.parts) = 3
    /\ toUri(r.parts[2]) = key
    /\ Includes(InstancesOf(kg.instances, r.parts[1]), e.label)
    /\ \E i \in 1..Len(r.values) :
          /\ InstanceUri(r.values[i]) = target
          /\ Includes(InstancesOf(kg.instances, r.parts[3]), r.values[i])

OnlyPresentInstances ==
    \A k \in 1..Len(kgJsonld.graph) :
        LET e == kgJsonld.graph[k]
        IN  \A p \in 1..Len(e.props) : \A t \in 1..Len(e.props[p].targets) :
                \E i \in 1..Len(kg.relationships) :
                    Accounts(kg.relationships[i], e, e.props[p].key, e.props[p].targets[t])

C20_OnlyPresentInstances == [](OnlyPresentInstances) /\ [][kg' = kg]_vars

----------------------------------------------------------------------------
(* C21: a file without @context leaves no loaded document: an import       *)
(* request can be sent only if the most recently selected file parsed as    *)
(* JSON and had @context, and the document a request carries always has    *)
(* @context.                                                               *)

C21_ImportNeedsContext ==
    \A k \in 1..Len(fileManager.requests) :
        LET r == fileManager.requests[k]
        IN  /\ fileManager.files[r.last].json /\ fileManager.files[r.last].context
            /\ fileManager.files[r.jsonld].json /\ fileManager.files[r.jsonld].context

----------------------------------------------------------------------------
(* C22: in the rows of TriplesView.tsx a class reached through a           *)
(* subClassOf edge is listed after its parent at exactly the parent's      *)
(* depth + 1 (Animal at depth 0, then Dog at depth 1), and every property  *)
(* row has a depth greater than or equal to the depth of the class that    *)
(* owns the property.                                                      *)

\* the row at index j lists the class with the id: as a subject or as a subclass
Lists(r, j, id) ==
    \/ r[j].isFirst /\ r[j].nodeId = id
    \/ r[j].predicate = "subClassOf" /\ r[j].childNodeId = id

C22_SubclassOneDeeper ==
    \A k \in 1..Len(triples) :
        IF triples[k].predicate = "subClassOf" /\ triples[k].childNodeId # NoId
        THEN \E e \in 1..Len(edges) : \E j \in 1..(k - 1) :
                /\ edges[e].label = "subClassOf"
                /\ edges[e].source = triples[k].childNodeId
                /\ Lists(triples, j, edges[e].target)
                /\ triples[k].depth = triples[j].depth + 1
        ELSE ~triples[k].isFirst =>
             \E e \in 1..Len(edges) : \E j \in 1..(k - 1) :
                /\ Predicate(edges[e]) = triples[k].predicate
                /\ FindById(nodes, edges[e].target).label = triples[k].object
                /\ Lists(triples, j, edges[e].source)
                /\ triples[k].depth >= triples[j].depth

----------------------------------------------------------------------------
(* C26: the relationship key of a property row is                          *)
(* "{sourceClass}:{predicate}:{targetClass}" with sourceClass the label of *)
(* the class that is the source of the underlying edge and targetClass the *)
(* label of its target, also for a property of a subclass that is listed   *)
(* beneath a root class.                                                   *)

\* the keys of the edges between two nodes of the graph
EdgeKeys(ns, es) ==
    {<<FindById(ns, es[e].source).label, Predicate(es[e]), FindById(ns, es[e].target).label>> :
        e \in {e \in 1..Len(es) : /\ FindById(ns, es[e].source) # NoNode
                                   /\ FindById(ns, es[e].target) # NoNode}}

C26_RelationshipKey ==
    \A k \in 1..Len(triples) :
        (~triples[k].isFirst /\ triples[k].predicate # "subClassOf") =>
            relationshipKey(triples[k]) \in EdgeKeys(nodes, edges)

----------------------------------------------------------------------------
(* C27: after any batch, node ids are pairwise distinct and edge ids are   *)
(* pairwise distinct, given that they were distinct before; two add_node   *)
(* actions, or two subClassOf edges created by add_node, applied in one    *)
(* batch at the same clock reading still receive different ids.            *)

DistinctIds(list) == \A i, j \in 1..Len(list) : list[i].id = list[j].id => i = j

\* the last response was handled by applyActions
Applied == turns > 0 /\ updatedGraph = <<>> /\ actions # <<>>

C27_IdsDistinct ==
    (Applied /\ DistinctIds(prevNodes) /\ DistinctIds(prevEdges)) =>
        DistinctIds(nodes) /\ DistinctIds(edges)

----------------------------------------------------------------------------
(* C28: the applier preserves referential integrity: if every edge of the  *)
(* graph has its source and its target among the nodes, then after the     *)
(* actions of a batch every edge of the result has its source and its      *)
(* target among the nodes of the result.                                   *)

Integrity(ns, es) ==
    \A k \in 1..Len(es) :
        FindById(ns, es[k].source) # NoNode /\ FindById(ns, es[k].target) # NoNode

C28_ReferentialIntegrity ==
    (Applied /\ Integrity(prevNodes, prevEdges)) => Integrity(nodes, edges)

\* a node with edges at it was removed from a graph that had integrity, and an
\* edge was added by the same batch
C28_Witness ==
    /\ Applied
    /\ Integrity(prevNodes, prevEdges)
    /\ Len(actions) = 2
    /\ actions[1].action = "remove_node"
    /\ actions[2].action \in {"add_node", "add_edge", "add_property"}
    /\ Len(nodes) = Len(prevNodes)
    /\ \E k \in 1..Len(prevEdges) :
          \A j \in 1..Len(edges) : edges[j].id # prevEdges[k].id
    /\ \E j \in 1..Len(edges) :
          \A k \in 1..Len(prevEdges) : edges[j].id # prevEdges[k].id


(***************************************************************************)
(* C24: when one instances save (handleValueBlur) and one relationship     *)
(* save (handleRelationshipBlur) have both completed, whatever the order   *)
(* of their GETs and PUTs, the record stored holds the relationship values *)
(* the relationship save wrote and the instance values the instances save  *)
(* wrote.                                                                  *)
(***************************************************************************)
BothBlursDone ==
    /\ kgEditor # <<>>
    /\ Len(kgEditor.saves) = 2
    /\ {kgEditor.saves[k].kind : k \in 1..2} = {"value", "relationship"}
    /\ \A k \in 1..2 : kgEditor.saves[k].stage = "done"

StoredAt(map, key) == IF key \in DOMAIN map THEN map[key] ELSE <<>>

C24_BlurSavesKeepBoth ==
    BothBlursDone =>
        \A k \in 1..2 :
            LET save == kgEditor.saves[k]
            IN  IF save.kind = "value"
                THEN StoredAt(kgEditor.stored.instances, save.key) = save.values
                ELSE StoredAt(kgEditor.stored.relationships, save.key) = save.values

(***************************************************************************)
(* C25: every save the Save button starts writes the instances derived     *)
(* from the inputValues and the relationships derived from the             *)
(* relationshipValues that were on the screen when the button was pressed. *)
(***************************************************************************)
C25_SaveWritesCurrentValues ==
    kgEditor # <<>> =>
        \A k \in 1..Len(kgEditor.saves) :
            LET save == kgEditor.saves[k]
            IN  save.kind = "save" =>
                    /\ save.instances = BuildFrom(save.entered.inputValues)
                    /\ save.relationships = BuildFrom(save.entered.relationshipValues)


(***************************************************************************)
(* C23: never are two chat turns in flight, and no two batches of actions  *)
(* from two responses were applied to the same starting graph.             *)
(***************************************************************************)
InFlight == {k \in 1..Len(session.turns) : session.turns[k].stage = "sent"}

AppliedTurns == {k \in 1..Len(session.turns) : session.turns[k].stage = "actions"}

C23_OneTurnInFlight ==
    session # <<>> =>
        /\ Cardinality(InFlight) <= 1
        /\ \A j, k \in AppliedTurns :
               j # k => session.turns[j].base # session.turns[k].base

(***************************************************************************)
(* C29: the nodes and edges App holds are those of a graph of the current  *)
(* ontology (or the empty lists), and every graph saved to the backend     *)
(* under an ontology id is a graph of that ontology.                       *)
(***************************************************************************)
C29_GraphOfCurrentOntology ==
    session # <<>> =>
        /\ session.graph.of \in {0, session.currentOntology}
        /\ \A k \in 1..Len(session.saves) :
               session.saves[k].graph.of = session.saves[k].id

(***************************************************************************)
(* C30: once every knowledge-graph fetch has been answered, the list App   *)
(* holds has knowledge graphs of the current ontology only, and the        *)
(* selected knowledge graph is null or one of that list.                   *)
(***************************************************************************)
ListsSettled ==
    /\ \A k \in 1..Len(session.listRequests) : session.listRequests[k].answered
    /\ \A k \in 1..Len(session.creations) : session.creations[k].answered

C30_KnowledgeGraphsOfCurrentOntology ==
    (session # <<>> /\ ListsSettled) =>
        /\ \A item \in session.knowledgeGraphs : item.of = session.currentOntology
        /\ \/ session.selectedKnowledgeGraph = NoKg
           \/ /\ session.selectedKnowledgeGraph \in session.knowledgeGraphs
              /\ session.selectedKnowledgeGraph.of = session.currentOntology

====
